---- MODULE Spec2Model ----
(***************************************************************************)
(* gotodolist: the credential issuance and verification subsystem.         *)
(*                                                                         *)
(* The user collection is the only shared mutable resource.  Every request *)
(* is served by its own worker; a handler is cut into atomic steps at its  *)
(* store operations (FindOne / InsertOne / UpdateOne are single-document   *)
(* operations of the store), the local computation before a store          *)
(* operation belonging to the step of that operation.  Time is counted in  *)
(* ticks of which TicksPerSecond make a second, and observed at the        *)
(* instants at which a token lifetime elapses: 0, 24h, 7d, 7d+24h, ...     *)
(*                                                                         *)
(* Spec is the server answering one request at a time: the variable out    *)
(* holds the request just answered and its response until the client has   *)
(* taken it.  SpecRace is the server with NumWorkers requests in flight at *)
(* one instant of the clock, responses not kept.  SpecProtect is Protect   *)
(* and the handlers behind it in front of a store that holds registered    *)
(* users, with every kind of Authorization header and a clock that also    *)
(* stops between two whole seconds.  SpecTasks is the TaskController       *)
(* behind Protect, one request at a time, in front of a user collection    *)
(* that holds the registered accounts and a task collection that starts    *)
(* empty; an int is IntBits wide there, and its arithmetic wraps around.   *)
(* SpecLive is Spec with the handlers scheduled fairly.                    *)
(***************************************************************************)
EXTENDS Integers, Sequences, FiniteSets, TLC

\* ------------------------------------------------------------------ bounds
MaxUsers == 2       \* documents the user collection can hold
MaxTokens == 3      \* refresh tokens drawn from the random source
MaxTicks == 2       \* advances of the clock
NumWorkers == 2     \* requests served concurrently
TicksPerSecond == 2 \* resolution of the clock
MaxProtectTicks == 3 \* advances of the clock of SpecProtect
MaxTasks == 2       \* documents ever inserted into the task collection
IntBits == 16       \* width of an int, scaled down from strconv.IntSize

\* ------------------------------------------------------- program constants
Hour == 3600 * TicksPerSecond               \* time.Hour
RefreshTokenLifetime == 7 * 24 * Hour       \* 7 * 24 * time.Hour
AccessTokenLifetime == 24 * Hour            \* JWT_EXPIRE default "24h"

StatusOK == 200
StatusCreated == 201
StatusBadRequest == 400
StatusUnauthorized == 401
StatusForbidden == 403
StatusNotFound == 404
StatusInternalServerError == 500

Null == 0           \* nil / absent field of a document

VARIABLES
    users,      \* the user collection: users[i] is the document with _id = i
    now,        \* time.Now(), in ticks
    issued,     \* how many refresh tokens the random source has produced
    req,        \* req[w]: the request worker w is serving
    out,        \* the request answered last, with its response
    exchanged,  \* history: exchanged[t] is the set of refresh tokens handed out
                \* by RefreshToken requests that presented t
    lastWrite,  \* history: lastWrite[u] is the last update of u's refresh fields:
                \* whether sendTokenResponse or Logout made it, the refresh token
                \* plaintext it stored the digest of (Logout: the plaintext it
                \* revoked) and, for sendTokenResponse, its time
    tasks       \* the task collection: tasks[i] is the document with _id = i,
                \* or NoTask once it has been deleted

vars == <<users, now, issued, req, out, exchanged, lastWrite, tasks>>

Workers == 1..NumWorkers
Plaintexts == 1..MaxTokens

\* The request bodies clients send; an empty field is a field left out.
RegisterInputs ==
    {[username |-> "alice", email |-> "a@x.io", password |-> "secret1"],
     [username |-> "bob",   email |-> "b@x.io", password |-> "secret2"],
     [username |-> "bob",   email |-> "a@x.io", password |-> "secret2"],
     [username |-> "",      email |-> "a@x.io", password |-> "secret1"]}

LoginInputs ==
    {[email |-> "a@x.io", password |-> "secret1"],
     [email |-> "a@x.io", password |-> "secret2"],
     [email |-> "b@x.io", password |-> "secret2"],
     [email |-> "",       password |-> "secret1"]}

\* ------------------------------------------------------- credential hasher
\* bcrypt.GenerateFromPassword: the hash carries algorithm, cost and salt.
BcryptHash(password, salt) == <<"$2a$10", salt, password>>

Salts == {"s1"}

\* Mutant: the password is hashed again with a salt of its own and the two
\* hashes are compared.
CompareHashAndPassword_FreshSalt(hash, password) ==
    /\ Len(hash) = 3
    /\ BcryptHash(password, "s0") = hash

\* bcrypt.CompareHashAndPassword: re-hash with the salt of the stored hash.
CompareHashAndPassword(hash, password) ==
    /\ Len(hash) = 3
    /\ BcryptHash(password, hash[2]) = hash

\* Mutant: every input has the digest of the empty input.
HashString_Const(input) == MaxTokens + 1

\* SHA-256 in hex: deterministic, collision free on the plaintext space, and
\* its image is disjoint from the plaintext space.
HashString(input) == input + MaxTokens + 1

\* ------------------------------------------------------------- token codec
\* ObjectID.Hex() and the claim kinds a presented token can carry.
Hex(id) == [kind |-> "hex", v |-> id]

NoJWT == [alg |-> "", sig |-> "", id |-> [kind |-> "absent", v |-> Null],
          exp |-> Null, iat |-> Null]

GetTokenExpiration(t) == t + AccessTokenLifetime

\* time.Time.Unix(): the whole seconds elapsed, the fraction dropped.
Unix(t) == t \div TicksPerSecond

\* jwt.NumericDate: the time a claim in seconds stands for.
NumericDate(seconds) == seconds * TicksPerSecond

GenerateAccessToken(userID, t) ==
    [alg |-> "HS256", sig |-> "valid", id |-> userID,
     exp |-> Unix(GetTokenExpiration(t)), iat |-> Unix(t)]

\* Mutant: the plaintext is returned in the place of its digest.
GenerateRefreshToken_StorePlain(n, t) == <<n, n, t + RefreshTokenLifetime>>

\* <<plaintext, digest, expiry>> of the n-th draw of the random source
GenerateRefreshToken(n, t) == <<n, HashString(n), t + RefreshTokenLifetime>>

\* ------------------------------------------------------------------ models
NoHash == <<>>

NewUser(username, email, hashedPassword) ==
    [ID |-> Null, Username |-> username, Email |-> email,
     Password |-> hashedPassword,
     RefreshToken |-> Null, RefreshTokenExpire |-> Null]

NoUser == NewUser("", "", NoHash)

\* A document decoded into a models.User; no handler reads the refresh fields
\* of a decoded user, and the model leaves them out of it.
Decode(doc) == [doc EXCEPT !.RefreshToken = Null, !.RefreshTokenExpire = Null]

\* Mutant: the task is created without its owner.
NewTask_NoOwner(title, userID, t) ==
    [ID |-> Null, Title |-> title, Description |-> "", Completed |-> FALSE,
     DueDate |-> Null, Priority |-> "medium", User |-> Null,
     CreatedAt |-> t, UpdatedAt |-> t]

\* models.NewTask, created at time t
NewTask(title, userID, t) ==
    [ID |-> Null, Title |-> title, Description |-> "", Completed |-> FALSE,
     DueDate |-> Null, Priority |-> "medium", User |-> userID,
     CreatedAt |-> t, UpdatedAt |-> t]

\* The place of a deleted document: ids are not used again.
NoTask == NewTask("", Null, Null)

\* --------------------------------------------------------------- the store
InsertOne(coll, doc) == Append(coll, [doc EXCEPT !.ID = Len(coll) + 1])

\* Mutant: renewal in place, a stored digest is kept and only its expiry moves.
UpdateOne_RenewInPlace(coll, id, refreshToken, refreshTokenExpire) ==
    [i \in DOMAIN coll |->
        IF coll[i].ID # id THEN coll[i]
        ELSE IF coll[i].RefreshToken # Null /\ refreshToken # Null
        THEN [coll[i] EXCEPT !.RefreshTokenExpire = refreshTokenExpire]
        ELSE [coll[i] EXCEPT !.RefreshToken = refreshToken,
                             !.RefreshTokenExpire = refreshTokenExpire]]

\* Mutant: the filter matches no document, and UpdateOne reports no error.
UpdateOne_NoMatch(coll, id, refreshToken, refreshTokenExpire) == coll

\* Mutant: the filter is empty, the update goes to the first document of the
\* collection.
UpdateOne_EmptyFilter(coll, id, refreshToken, refreshTokenExpire) ==
    [i \in DOMAIN coll |->
        IF i = 1
        THEN [coll[i] EXCEPT !.RefreshToken = refreshToken,
                             !.RefreshTokenExpire = refreshTokenExpire]
        ELSE coll[i]]

\* UpdateOne(ctx, {"_id": id}, {"$set": {refreshToken, refreshTokenExpire}})
UpdateOne(coll, id, refreshToken, refreshTokenExpire) ==
    [i \in DOMAIN coll |->
        IF coll[i].ID = id
        THEN [coll[i] EXCEPT !.RefreshToken = refreshToken,
                             !.RefreshTokenExpire = refreshTokenExpire]
        ELSE coll[i]]

\* Mutant: Logout clears the digest and leaves the expiry.
ClearRefresh_TokenOnly(coll, id) ==
    [i \in DOMAIN coll |->
        IF coll[i].ID = id THEN [coll[i] EXCEPT !.RefreshToken = Null] ELSE coll[i]]

\* Mutant: Logout clears the expiry and leaves the digest.
ClearRefresh_ExpireOnly(coll, id) ==
    [i \in DOMAIN coll |->
        IF coll[i].ID = id THEN [coll[i] EXCEPT !.RefreshTokenExpire = Null] ELSE coll[i]]

\* Mutant: the filter of Logout's update matches no document.
ClearRefresh_NoMatch(coll, id) == coll

\* UpdateOne(ctx, {"_id": id}, {"$set": {refreshToken: nil, refreshTokenExpire: nil}})
ClearRefresh(coll, id) == UpdateOne(coll, id, Null, Null)

\* {"$or": [{"username": u}, {"email": e}]}
MatchUsernameOrEmail(coll, username, email) ==
    {i \in DOMAIN coll : coll[i].Username = username \/ coll[i].Email = email}

\* {"email": e}
MatchEmail(coll, email) == {i \in DOMAIN coll : coll[i].Email = email}

\* Mutant: "$gte" for "$gt".
MatchRefreshToken_Gte(coll, hashedToken, t) ==
    {i \in DOMAIN coll :
        /\ coll[i].RefreshToken = hashedToken
        /\ coll[i].RefreshTokenExpire # Null
        /\ coll[i].RefreshTokenExpire >= t}

\* Mutant: the expiry is tested against the lifetime of the access token, a
\* refresh token is found only while the access token of its pair is good.
MatchRefreshToken_WhileAccessGood(coll, hashedToken, t) ==
    {i \in DOMAIN coll :
        /\ coll[i].RefreshToken = hashedToken
        /\ coll[i].RefreshTokenExpire # Null
        /\ coll[i].RefreshTokenExpire - RefreshTokenLifetime + AccessTokenLifetime > t}

\* {"refreshToken": h, "refreshTokenExpire": {"$gt": t}}
MatchRefreshToken(coll, hashedToken, t) ==
    {i \in DOMAIN coll :
        /\ coll[i].RefreshToken = hashedToken
        /\ coll[i].RefreshTokenExpire # Null
        /\ coll[i].RefreshTokenExpire > t}

\* Mutant: the filter also asks for a stored refresh digest.
MatchId_WithSession(coll, id) ==
    {i \in DOMAIN coll : coll[i].ID = id /\ coll[i].RefreshToken # Null}

\* Mutant: an empty filter, FindOne decodes whichever document comes first.
MatchId_Any(coll, id) == DOMAIN coll

\* {"_id": id}
MatchId(coll, id) == {i \in DOMAIN coll : coll[i].ID = id}

\* ------------------------------------------------------ the task collection
\* Mutant: every task passes the ownership check.
Owns_Anyone(task, userID) == TRUE

\* task.User != userID, negated
Owns(task, userID) == task.User = userID

\* The "$set" document UpdateTask builds from its input at time t, applied to
\* doc: a field the input leaves empty is not in the document.
SetTask(doc, input, t) ==
    [doc EXCEPT !.UpdatedAt = t,
                !.Title = IF input.title # "" THEN input.title ELSE @,
                !.Description = IF input.description # "" THEN input.description ELSE @,
                !.Completed = input.completed,
                !.DueDate = IF input.dueDate # Null THEN input.dueDate ELSE @,
                !.Priority = IF input.priority # "" THEN input.priority ELSE @]

\* UpdateOne(ctx, {"_id": objectID}, {"$set": updateSet}) on the task collection
UpdateOneTask(coll, id, input, t) ==
    [i \in DOMAIN coll |-> IF coll[i].ID = id THEN SetTask(coll[i], input, t) ELSE coll[i]]

\* DeleteOne(ctx, {"_id": objectID})
DeleteOne(coll, id) ==
    [i \in DOMAIN coll |-> IF coll[i].ID = id THEN NoTask ELSE coll[i]]

\* The query of GetTasks: {"user": userID} and the filters that were provided.
MatchQuery(coll, userID, completed, priority) ==
    {i \in DOMAIN coll :
        /\ coll[i] # NoTask
        /\ coll[i].User = userID
        /\ completed # "" => coll[i].Completed = (completed = "true")
        /\ priority # "" => coll[i].Priority = priority}

\* The strings of the model in the order the store compares them.
Collation == <<"", "d1", "high", "low", "medium", "t1", "t2", "urgent">>

Collate(v) == CHOOSE k \in DOMAIN Collation : Collation[k] = v

\* The value a document is sorted by under the sort field of the request; a
\* field no document has sorts all documents alike.
SortKey(doc, field) ==
    CASE field = "_id" -> doc.ID
      [] field = "title" -> Collate(doc.Title)
      [] field = "description" -> Collate(doc.Description)
      [] field = "completed" -> IF doc.Completed THEN 1 ELSE 0
      [] field = "dueDate" -> doc.DueDate
      [] field = "priority" -> Collate(doc.Priority)
      [] field = "user" -> doc.User
      [] field = "createdAt" -> doc.CreatedAt
      [] field = "updatedAt" -> doc.UpdatedAt
      [] OTHER -> 0

\* The orders in which a cursor sorted by field can return the documents S of
\* coll; the order of documents with equal keys is the store's choice.
Sorted(coll, S, field, sortOrder) ==
    {seq \in [1..Cardinality(S) -> S] :
        /\ \A a, b \in DOMAIN seq : a # b => seq[a] # seq[b]
        /\ \A a, b \in DOMAIN seq :
              a < b => sortOrder * SortKey(coll[seq[a]], field)
                          <= sortOrder * SortKey(coll[seq[b]], field)}

\* Find(ctx, query, findOptions): the results a cursor over the documents S
\* can give with SetSort, SetSkip and SetLimit.
Find(coll, S, field, sortOrder, skip, limit) ==
    {[k \in 1..(IF Len(seq) - skip < limit
                THEN (IF Len(seq) > skip THEN Len(seq) - skip ELSE 0)
                ELSE limit) |-> coll[seq[skip + k]]] :
        seq \in Sorted(coll, S, field, sortOrder)}

\* ------------------------------------------------------------------- routes
\* SetupAuthRoutes and SetupTaskRoutes: the routes behind authMiddleware.Protect()
ProtectedRoutes == {"logout", "me", "tasks"}

PublicRoutes == {"register", "login", "refresh"}

\* ---------------------------------------------------------------- requests
\* The Authorization header as a sequence of atoms; the atom "<jwt>" stands
\* for the compact serialisation of the token in field jwt.
NoHeader == [text |-> <<>>, jwt |-> NoJWT]

Bearer(jwt) == [text |-> <<"Bearer", " ", "<jwt>">>, jwt |-> jwt]

\* The JSON body of CreateTask and UpdateTask; a field left out is empty.
NoBody ==
    [malformed |-> FALSE, title |-> "", description |-> "", completed |-> FALSE,
     dueDate |-> Null, priority |-> ""]

\* The query string of GetTasks; page and limit are the texts of the
\* parameters, as sequences of characters.
NoQuery ==
    [completed |-> "", priority |-> "", sort |-> "", sortDir |-> "",
     page |-> <<>>, limit |-> <<>>]

\* What a request to /tasks carries for its handler: the handler the method
\* and the path select, the id in the path, the body, the query.
NoTaskRequest ==
    [handler |-> "none", id |-> [kind |-> "absent", v |-> Null], body |-> NoBody,
     query |-> NoQuery]

NoInput ==
    [username |-> "", email |-> "", password |-> "", refreshToken |-> Null,
     header |-> NoHeader, task |-> NoTaskRequest]

NoPagination == [total |-> 0, page |-> 0, limit |-> 0, totalPages |-> 0]

NoResponse ==
    [status |-> 0, error |-> "", token |-> NoJWT, refreshToken |-> Null, user |-> Null,
     data |-> <<>>, count |-> 0, pagination |-> NoPagination]

Failure(status, error) == [NoResponse EXCEPT !.status = status, !.error = error]

\* What a request has done besides answering: the terminal state of Protect,
\* whether the token codec ran, the store operations made, whether the
\* route's handler ran.
NoTrace == [outcome |-> "none", parsed |-> FALSE, storeOps |-> 0, handler |-> FALSE]

\* A worker without a request.  user and userId are what Protect put in the
\* context or what the handler decoded; total is the count GetTasks keeps from
\* CountDocuments for its response.
Idle == [op |-> "none", pc |-> "idle", input |-> NoInput, user |-> NoUser,
         userId |-> Null, trace |-> NoTrace, total |-> 0]

NoOut == [op |-> "none", input |-> NoInput, resp |-> NoResponse, trace |-> NoTrace]

\* The value of out while responses are not kept.
Unobserved == [NoOut EXCEPT !.op = "off"]

\* No response is waiting for its client.
Delivered == out \in {NoOut, Unobserved}

Free(w) == req[w].pc = "idle" /\ Delivered

\* The request of worker w is answered with resp.
Done(w, op, input, resp, trace) ==
    /\ req' = [req EXCEPT ![w] = Idle]
    /\ out' = IF out = Unobserved
              THEN out
              ELSE [op |-> op, input |-> input, resp |-> resp, trace |-> trace]

\* What the later steps of a request read of its input; the rest is kept as
\* well while responses are kept.
InFlight(input) ==
    IF out = Unobserved THEN [NoInput EXCEPT !.refreshToken = input.refreshToken]
    ELSE input

\* The request of worker w goes on to its step pc.
Goto(w, op, pc, input, user, userId, trace) ==
    /\ req' = [req EXCEPT ![w] = [op |-> op, pc |-> pc, input |-> InFlight(input),
                                  user |-> user, userId |-> userId,
                                  trace |-> trace, total |-> 0]]
    /\ UNCHANGED out

StoreOp(trace) == [trace EXCEPT !.storeOps = @ + 1]

\* A public route: the handler is the whole chain.
Handler == [NoTrace EXCEPT !.handler = TRUE]

NoWrite == [token |-> Null, by |-> "none", at |-> Null]

history == <<exchanged, lastWrite>>

InitStore ==
    /\ users = <<>>
    /\ now = 0
    /\ issued = 0
    /\ req = [w \in Workers |-> Idle]
    /\ exchanged = [t \in Plaintexts |-> {}]
    /\ lastWrite = [u \in 1..MaxUsers |-> NoWrite]
    /\ tasks = <<>>

Init == InitStore /\ out = NoOut

InitRace == InitStore /\ out = Unobserved

\* The k-th instant of the clock.
Instant(k) == (k \div 2) * RefreshTokenLifetime + (k % 2) * AccessTokenLifetime

\* The clock advances to its next instant.
Tick ==
    /\ Delivered
    /\ \E k \in 0..(MaxTicks - 1) :
          /\ now = Instant(k)
          /\ now' = Instant(k + 1)
    /\ UNCHANGED <<users, issued, req, out, history, tasks>>

\* ------------------------------------------------------------ AuthController
\* Register, up to and including the FindOne that looks for a taken name.
Register(w, username, email, password, storeOk, salt) ==
    /\ Free(w)
    /\ LET input == [NoInput EXCEPT !.username = username, !.email = email,
                                    !.password = password]
       IN  IF username = "" \/ email = "" \/ password = ""
           THEN Done(w, "register", input,
                     Failure(StatusBadRequest, "Invalid input data"), Handler)
           ELSE IF ~storeOk
           THEN Done(w, "register", input,
                     Failure(StatusInternalServerError, "Failed to check existing users"),
                     StoreOp(Handler))
           ELSE IF MatchUsernameOrEmail(users, username, email) # {}
           THEN Done(w, "register", input,
                     Failure(StatusBadRequest, "Username or email already in use"),
                     StoreOp(Handler))
           ELSE Goto(w, "register", "insert", input,
                     NewUser(username, email, BcryptHash(password, salt)), Null,
                     StoreOp(Handler))
    /\ UNCHANGED <<users, now, issued, history, tasks>>

\* Mutant: the inserted id is not copied into the user before the tokens are
\* generated.
RegisterInsert_NoId(w, storeOk) ==
    /\ req[w].op = "register"
    /\ req[w].pc = "insert"
    /\ IF ~storeOk
       THEN /\ Done(w, "register", req[w].input,
                    Failure(StatusInternalServerError, "Failed to create user"),
                    StoreOp(req[w].trace))
            /\ UNCHANGED users
       ELSE /\ Len(users) < MaxUsers
            /\ users' = InsertOne(users, req[w].user)
            /\ Goto(w, "register", "issue", req[w].input, req[w].user, Null,
                    StoreOp(req[w].trace))
    /\ UNCHANGED <<now, issued, history, tasks>>

\* Register: InsertOne of the new document.
RegisterInsert(w, storeOk) ==
    /\ req[w].op = "register"
    /\ req[w].pc = "insert"
    /\ IF ~storeOk
       THEN /\ Done(w, "register", req[w].input,
                    Failure(StatusInternalServerError, "Failed to create user"),
                    StoreOp(req[w].trace))
            /\ UNCHANGED users
       ELSE /\ Len(users) < MaxUsers
            /\ users' = InsertOne(users, req[w].user)
            /\ Goto(w, "register", "issue", req[w].input,
                    [req[w].user EXCEPT !.ID = Len(users) + 1], Null,
                    StoreOp(req[w].trace))
    /\ UNCHANGED <<now, issued, history, tasks>>

\* Mutant: an unknown email is answered "User not found".
Login_TellsUnknown(w, email, password, storeOk) ==
    /\ Free(w)
    /\ LET input == [NoInput EXCEPT !.email = email, !.password = password]
           found == MatchEmail(users, email)
       IN  IF email = "" \/ password = ""
           THEN Done(w, "login", input,
                     Failure(StatusBadRequest, "Invalid input data"), Handler)
           ELSE IF ~storeOk
           THEN Done(w, "login", input,
                     Failure(StatusInternalServerError, "Failed to find user"),
                     StoreOp(Handler))
           ELSE IF found = {}
           THEN Done(w, "login", input,
                     Failure(StatusUnauthorized, "User not found"),
                     StoreOp(Handler))
           ELSE \E i \in found :
                  IF ~CompareHashAndPassword(users[i].Password, password)
                  THEN Done(w, "login", input,
                            Failure(StatusUnauthorized, "Invalid credentials"),
                            StoreOp(Handler))
                  ELSE Goto(w, "login", "issue", input, Decode(users[i]), Null,
                            StoreOp(Handler))
    /\ UNCHANGED <<users, now, issued, history, tasks>>

\* Mutant: a wrong password ends the sessions of the account it was tried on.
Login_EndsSession(w, email, password, storeOk) ==
    /\ Free(w)
    /\ LET input == [NoInput EXCEPT !.email = email, !.password = password]
           found == MatchEmail(users, email)
       IN  IF email = "" \/ password = ""
           THEN /\ Done(w, "login", input,
                        Failure(StatusBadRequest, "Invalid input data"), Handler)
                /\ UNCHANGED users
           ELSE IF ~storeOk
           THEN /\ Done(w, "login", input,
                        Failure(StatusInternalServerError, "Failed to find user"),
                        StoreOp(Handler))
                /\ UNCHANGED users
           ELSE IF found = {}
           THEN /\ Done(w, "login", input,
                        Failure(StatusUnauthorized, "Invalid credentials"),
                        StoreOp(Handler))
                /\ UNCHANGED users
           ELSE \E i \in found :
                  IF ~CompareHashAndPassword(users[i].Password, password)
                  THEN /\ Done(w, "login", input,
                               Failure(StatusUnauthorized, "Invalid credentials"),
                               StoreOp(StoreOp(Handler)))
                       /\ users' = ClearRefresh(users, users[i].ID)
                  ELSE /\ Goto(w, "login", "issue", input, Decode(users[i]), Null,
                               StoreOp(Handler))
                       /\ UNCHANGED users
    /\ UNCHANGED <<now, issued, history, tasks>>

\* Login, up to and including the FindOne by email and the password check.
Login(w, email, password, storeOk) ==
    /\ Free(w)
    /\ LET input == [NoInput EXCEPT !.email = email, !.password = password]
           found == MatchEmail(users, email)
       IN  IF email = "" \/ password = ""
           THEN Done(w, "login", input,
                     Failure(StatusBadRequest, "Invalid input data"), Handler)
           ELSE IF ~storeOk
           THEN Done(w, "login", input,
                     Failure(StatusInternalServerError, "Failed to find user"),
                     StoreOp(Handler))
           ELSE IF found = {}
           THEN Done(w, "login", input,
                     Failure(StatusUnauthorized, "Invalid credentials"),
                     StoreOp(Handler))
           ELSE \E i \in found :
                  IF ~CompareHashAndPassword(users[i].Password, password)
                  THEN Done(w, "login", input,
                            Failure(StatusUnauthorized, "Invalid credentials"),
                            StoreOp(Handler))
                  ELSE Goto(w, "login", "issue", input, Decode(users[i]), Null,
                            StoreOp(Handler))
    /\ UNCHANGED <<users, now, issued, history, tasks>>

\* Mutant: the digest is looked up first and an expired token is told apart.
RefreshToken_TellsExpired(w, refreshToken, storeOk) ==
    /\ Free(w)
    /\ LET input == [NoInput EXCEPT !.refreshToken = refreshToken]
           hashedToken == HashString(refreshToken)
           found == MatchRefreshToken(users, hashedToken, now)
           stored == {i \in DOMAIN users : users[i].RefreshToken = hashedToken}
       IN  IF refreshToken = Null
           THEN Done(w, "refresh", input,
                     Failure(StatusBadRequest, "Refresh token is required"), Handler)
           ELSE IF ~storeOk
           THEN Done(w, "refresh", input,
                     Failure(StatusInternalServerError, "Failed to validate refresh token"),
                     StoreOp(Handler))
           ELSE IF found = {} /\ stored # {}
           THEN Done(w, "refresh", input,
                     Failure(StatusUnauthorized, "Refresh token expired"),
                     StoreOp(Handler))
           ELSE IF found = {}
           THEN Done(w, "refresh", input,
                     Failure(StatusUnauthorized, "Invalid or expired refresh token"),
                     StoreOp(Handler))
           ELSE \E i \in found :
                  Goto(w, "refresh", "issue", input, Decode(users[i]), Null, StoreOp(Handler))
    /\ UNCHANGED <<users, now, issued, history, tasks>>

\* RefreshToken, up to and including the FindOne by digest and expiry.
RefreshToken(w, refreshToken, storeOk) ==
    /\ Free(w)
    /\ LET input == [NoInput EXCEPT !.refreshToken = refreshToken]
           hashedToken == HashString(refreshToken)
           found == MatchRefreshToken(users, hashedToken, now)
       IN  IF refreshToken = Null
           THEN Done(w, "refresh", input,
                     Failure(StatusBadRequest, "Refresh token is required"), Handler)
           ELSE IF ~storeOk
           THEN Done(w, "refresh", input,
                     Failure(StatusInternalServerError, "Failed to validate refresh token"),
                     StoreOp(Handler))
           ELSE IF found = {}
           THEN Done(w, "refresh", input,
                     Failure(StatusUnauthorized, "Invalid or expired refresh token"),
                     StoreOp(Handler))
           ELSE \E i \in found :
                  Goto(w, "refresh", "issue", input, Decode(users[i]), Null, StoreOp(Handler))
    /\ UNCHANGED <<users, now, issued, history, tasks>>

\* The response body of sendTokenResponse.
TokenResponse(accessToken, refreshToken, user) ==
    [status |-> StatusOK, error |-> "", token |-> accessToken,
     refreshToken |-> refreshToken, user |-> user.ID]

\* Mutant: the error of UpdateOne is dropped, the token pair is sent although
\* the digest was not stored.
SendTokenResponse_IgnoreError(w, storeOk) ==
    /\ req[w].pc = "issue"
    /\ issued < MaxTokens
    /\ LET user == req[w].user
           accessToken == GenerateAccessToken(Hex(user.ID), now)
           gen == GenerateRefreshToken(issued + 1, now)
           presented == req[w].input.refreshToken
       IN  /\ issued' = issued + 1
           /\ users' = IF storeOk THEN UpdateOne(users, user.ID, gen[2], gen[3])
                       ELSE users
           /\ Done(w, req[w].op, req[w].input,
                   TokenResponse(accessToken, gen[1], user),
                   StoreOp(req[w].trace))
           /\ exchanged' = IF req[w].op = "refresh" /\ storeOk
                           THEN [exchanged EXCEPT ![presented] = @ \cup {gen[1]}]
                           ELSE exchanged
           /\ lastWrite' = IF storeOk
                           THEN [lastWrite EXCEPT ![user.ID] =
                                    [token |-> gen[1], by |-> "issue", at |-> now]]
                           ELSE lastWrite
    /\ UNCHANGED <<now, tasks>>

\* Mutant: the token pair is written to the response before the digest is
\* stored; when the store fails, the caller writes its error into the response
\* that already carries the pair.
SendTokenResponse_RespondsFirst(w, storeOk) ==
    /\ req[w].pc = "issue"
    /\ issued < MaxTokens
    /\ LET user == req[w].user
           accessToken == GenerateAccessToken(Hex(user.ID), now)
           gen == GenerateRefreshToken(issued + 1, now)
           presented == req[w].input.refreshToken
       IN  /\ issued' = issued + 1
           /\ users' = IF storeOk THEN UpdateOne(users, user.ID, gen[2], gen[3])
                       ELSE users
           /\ Done(w, req[w].op, req[w].input,
                   IF storeOk THEN TokenResponse(accessToken, gen[1], user)
                   ELSE [TokenResponse(accessToken, gen[1], user) EXCEPT
                            !.error = "Failed to generate authentication tokens"],
                   StoreOp(req[w].trace))
           /\ exchanged' = IF req[w].op = "refresh" /\ storeOk
                           THEN [exchanged EXCEPT ![presented] = @ \cup {gen[1]}]
                           ELSE exchanged
           /\ lastWrite' = IF storeOk
                           THEN [lastWrite EXCEPT ![user.ID] =
                                    [token |-> gen[1], by |-> "issue", at |-> now]]
                           ELSE lastWrite
    /\ UNCHANGED <<now, tasks>>

\* sendTokenResponse, as called by Register, Login and RefreshToken.
SendTokenResponse(w, storeOk) ==
    /\ req[w].pc = "issue"
    /\ issued < MaxTokens
    /\ LET user == req[w].user
           accessToken == GenerateAccessToken(Hex(user.ID), now)
           gen == GenerateRefreshToken(issued + 1, now)
           presented == req[w].input.refreshToken
       IN  IF ~storeOk
           THEN /\ UNCHANGED <<users, issued, history>>
                /\ Done(w, req[w].op, req[w].input,
                        Failure(StatusInternalServerError,
                                "Failed to generate authentication tokens"),
                        StoreOp(req[w].trace))
           ELSE /\ issued' = issued + 1
                /\ users' = UpdateOne(users, user.ID, gen[2], gen[3])
                /\ Done(w, req[w].op, req[w].input,
                        TokenResponse(accessToken, gen[1], user),
                        StoreOp(req[w].trace))
                /\ exchanged' = IF req[w].op = "refresh"
                                THEN [exchanged EXCEPT ![presented] = @ \cup {gen[1]}]
                                ELSE exchanged
                /\ lastWrite' = [lastWrite EXCEPT ![user.ID] =
                                   [token |-> gen[1], by |-> "issue", at |-> now]]
    /\ UNCHANGED <<now, tasks>>

\* ------------------------------------------------------------ AuthMiddleware
RECURSIVE SplitAcc(_, _, _, _)
SplitAcc(s, sep, cur, acc) ==
    IF s = <<>> THEN Append(acc, cur)
    ELSE IF Head(s) = sep
         THEN SplitAcc(Tail(s), sep, <<>>, Append(acc, cur))
         ELSE SplitAcc(Tail(s), sep, Append(cur, Head(s)), acc)

\* strings.Split
Split(s, sep) == SplitAcc(s, sep, <<>>, <<>>)

SigningMethodHMAC == {"HS256", "HS384", "HS512"}

\* Mutant: the claims are not validated, an expired token parses.
ParseWithClaims_NoExpiry(tokenString, jwt, t) ==
    IF tokenString # <<"<jwt>">> THEN "token is malformed"
    ELSE IF jwt.alg \notin SigningMethodHMAC THEN "unexpected signing method"
    ELSE IF jwt.sig # "valid" THEN "signature is invalid"
    ELSE "ok"

\* jwt.ParseWithClaims with the key function of Protect, at time t.
ParseWithClaims(tokenString, jwt, t) ==
    IF tokenString # <<"<jwt>">> THEN "token is malformed"
    ELSE IF jwt.alg \notin SigningMethodHMAC THEN "unexpected signing method"
    ELSE IF jwt.sig # "valid" THEN "signature is invalid"
    ELSE IF jwt.exp # Null /\ ~(t < NumericDate(jwt.exp)) THEN "token is expired"
    ELSE "ok"

\* claims["id"].(string)
IsString(claim) == claim.kind \in {"hex", "string"}

\* primitive.ObjectIDFromHex
ObjectIDFromHex(claim) == IF claim.kind = "hex" THEN claim.v ELSE Null

Rejected(outcome, status, error, parsed) ==
    [outcome |-> outcome, resp |-> Failure(status, error), parsed |-> parsed,
     userId |-> Null]

\* Mutant: the empty header is not tested for and falls through to the split.
ProtectToken_NoHeaderCheck(header, t) ==
    LET parts == Split(header.text, " ")
    IN  IF Len(parts) # 2 \/ parts[1] # <<"Bearer">>
        THEN Rejected("MalformedHeader", StatusUnauthorized,
                      "Invalid authorization format, use Bearer {token}", FALSE)
        ELSE IF ParseWithClaims(parts[2], header.jwt, t) # "ok"
        THEN Rejected("InvalidToken", StatusUnauthorized,
                      "Invalid or expired token", TRUE)
        ELSE IF ~IsString(header.jwt.id)
        THEN Rejected("InvalidToken", StatusUnauthorized,
                      "Invalid token payload", TRUE)
        ELSE IF ObjectIDFromHex(header.jwt.id) = Null
        THEN Rejected("InvalidToken", StatusUnauthorized,
                      "Invalid user ID in token", TRUE)
        ELSE [outcome |-> "lookup", resp |-> NoResponse, parsed |-> TRUE,
              userId |-> ObjectIDFromHex(header.jwt.id)]

\* Mutant: only the number of parts is tested, not the scheme.
ProtectToken_AnyScheme(header, t) ==
    LET parts == Split(header.text, " ")
    IN  IF header.text = <<>>
        THEN Rejected("MissingHeader", StatusUnauthorized,
                      "Authorization header required", FALSE)
        ELSE IF Len(parts) # 2
        THEN Rejected("MalformedHeader", StatusUnauthorized,
                      "Invalid authorization format, use Bearer {token}", FALSE)
        ELSE IF ParseWithClaims(parts[2], header.jwt, t) # "ok"
        THEN Rejected("InvalidToken", StatusUnauthorized,
                      "Invalid or expired token", TRUE)
        ELSE IF ~IsString(header.jwt.id)
        THEN Rejected("InvalidToken", StatusUnauthorized,
                      "Invalid token payload", TRUE)
        ELSE IF ObjectIDFromHex(header.jwt.id) = Null
        THEN Rejected("InvalidToken", StatusUnauthorized,
                      "Invalid user ID in token", TRUE)
        ELSE [outcome |-> "lookup", resp |-> NoResponse, parsed |-> TRUE,
              userId |-> ObjectIDFromHex(header.jwt.id)]

\* Protect up to the store lookup: the rejection, or the user id to look up.
ProtectToken(header, t) ==
    LET parts == Split(header.text, " ")
    IN  IF header.text = <<>>
        THEN Rejected("MissingHeader", StatusUnauthorized,
                      "Authorization header required", FALSE)
        ELSE IF Len(parts) # 2 \/ parts[1] # <<"Bearer">>
        THEN Rejected("MalformedHeader", StatusUnauthorized,
                      "Invalid authorization format, use Bearer {token}", FALSE)
        ELSE IF ParseWithClaims(parts[2], header.jwt, t) # "ok"
        THEN Rejected("InvalidToken", StatusUnauthorized,
                      "Invalid or expired token", TRUE)
        ELSE IF ~IsString(header.jwt.id)
        THEN Rejected("InvalidToken", StatusUnauthorized,
                      "Invalid token payload", TRUE)
        ELSE IF ObjectIDFromHex(header.jwt.id) = Null
        THEN Rejected("InvalidToken", StatusUnauthorized,
                      "Invalid user ID in token", TRUE)
        ELSE [outcome |-> "lookup", resp |-> NoResponse, parsed |-> TRUE,
              userId |-> ObjectIDFromHex(header.jwt.id)]

\* Protect in front of a protected route, up to and including the FindOne by id.
Protect(w, route, header, storeOk) ==
    /\ Free(w)
    /\ route \in ProtectedRoutes
    /\ LET input == [NoInput EXCEPT !.header = header]
           p == ProtectToken(header, now)
           found == MatchId(users, p.userId)
           trace == [NoTrace EXCEPT !.outcome = p.outcome, !.parsed = p.parsed]
       IN  IF p.outcome # "lookup"
           THEN Done(w, route, input, p.resp, trace)
           ELSE IF ~storeOk
           THEN Done(w, route, input,
                     Failure(StatusInternalServerError, "Failed to authenticate user"),
                     StoreOp([trace EXCEPT !.outcome = "StoreUnavailable"]))
           ELSE IF found = {}
           THEN Done(w, route, input,
                     Failure(StatusUnauthorized, "User not found"),
                     StoreOp([trace EXCEPT !.outcome = "UnknownIdentity"]))
           ELSE \E i \in found :
                  Goto(w, route, "handler", input, Decode(users[i]), p.userId,
                       StoreOp([trace EXCEPT !.outcome = "Authenticated"]))
    /\ UNCHANGED <<users, now, issued, history, tasks>>

\* Logout, the handler behind Protect on /auth/logout.
Logout(w, storeOk) ==
    /\ req[w].op = "logout"
    /\ req[w].pc = "handler"
    /\ LET trace == StoreOp([req[w].trace EXCEPT !.handler = TRUE])
       IN  IF req[w].userId = Null
           THEN /\ Done(w, "logout", req[w].input,
                        Failure(StatusUnauthorized, "Not authenticated"),
                        [req[w].trace EXCEPT !.handler = TRUE])
                /\ UNCHANGED <<users, lastWrite>>
           ELSE IF ~storeOk
           THEN /\ Done(w, "logout", req[w].input,
                        Failure(StatusInternalServerError, "Failed to complete logout"),
                        trace)
                /\ UNCHANGED <<users, lastWrite>>
           ELSE /\ users' = ClearRefresh(users, req[w].userId)
                /\ Done(w, "logout", req[w].input,
                        [NoResponse EXCEPT !.status = StatusOK], trace)
                /\ lastWrite' = [lastWrite EXCEPT ![req[w].userId] =
                                   [token |-> IF @.by = "logout" THEN Null ELSE @.token,
                                    by |-> "logout", at |-> Null]]
    /\ UNCHANGED <<now, issued, exchanged, tasks>>

\* GetMe, the handler behind Protect on /auth/me.
GetMe(w) ==
    /\ req[w].op = "me"
    /\ req[w].pc = "handler"
    /\ Done(w, "me", req[w].input,
            [NoResponse EXCEPT !.status = StatusOK, !.user = req[w].user.ID],
            [req[w].trace EXCEPT !.handler = TRUE])
    /\ UNCHANGED <<users, now, issued, history, tasks>>

\* A task handler behind Protect on /tasks: it runs; what it does to the task
\* collection is not part of this state.
TaskHandler(w) ==
    /\ req[w].op = "tasks"
    /\ req[w].pc = "handler"
    /\ Done(w, "tasks", req[w].input,
            [NoResponse EXCEPT !.status = StatusOK, !.user = req[w].userId],
            [req[w].trace EXCEPT !.handler = TRUE])
    /\ UNCHANGED <<users, now, issued, history, tasks>>

\* ------------------------------------------------------------ TaskController
Digits == <<"0", "1", "2", "3", "4", "5", "6", "7", "8", "9">>

IsDigit(c) == \E d \in DOMAIN Digits : Digits[d] = c

DigitValue(c) == (CHOOSE d \in DOMAIN Digits : Digits[d] = c) - 1

RECURSIVE ParseUint(_, _)
ParseUint(s, acc) ==
    IF s = <<>> THEN acc ELSE ParseUint(Tail(s), 10 * acc + DigitValue(Head(s)))

\* The largest and the smallest int.
MaxInt == 2 ^ (IntBits - 1) - 1

MinInt == 0 - 2 ^ (IntBits - 1)

\* The int that arithmetic on ints gives where the integers give n: the
\* result wraps around.
WrapInt(n) ==
    LET m == n % (2 ^ IntBits)
    IN  IF m > MaxInt THEN m - 2 ^ IntBits ELSE m

\* s is a decimal number with an optional sign: strconv.Atoi finds no syntax
\* error in it.
IsNumber(s) ==
    LET signed == s # <<>> /\ Head(s) \in {"+", "-"}
        body == IF signed THEN Tail(s) ELSE s
    IN  body # <<>> /\ \A k \in DOMAIN body : IsDigit(body[k])

\* The integer the decimal number s stands for.
Number(s) ==
    IF Head(s) = "-" THEN 0 - ParseUint(Tail(s), 0)
    ELSE IF Head(s) = "+" THEN ParseUint(Tail(s), 0)
    ELSE ParseUint(s, 0)

\* strconv.Atoi with its error dropped: 0 for a text that is no decimal
\* number, the nearest int for a number that no int can hold.
Atoi(s) ==
    IF ~IsNumber(s) THEN 0
    ELSE IF Number(s) > MaxInt THEN MaxInt
    ELSE IF Number(s) < MinInt THEN MinInt
    ELSE Number(s)

\* utils.GetQueryDefault
GetQueryDefault(value, defaultValue) == IF value = <<>> THEN defaultValue ELSE value

\* Mutant: the priority of a request is not validated.
ValidPriority_Any(priority) == TRUE

\* The priorities CreateTask and UpdateTask accept; the empty one is a
\* priority left out.
ValidPriority(priority) == priority \in {"", "low", "medium", "high"}

NotAuthenticated == Failure(StatusUnauthorized, "User not authenticated")

\* The request of worker w has passed Protect on /tasks.
AtHandler(w) == req[w].op = "tasks" /\ req[w].pc = "handler"

\* The request of worker w with what it carries for its handler.
TaskInput(w, task) == [req[w].input EXCEPT !.task = task]

\* The request of worker w, carrying task, goes on to its step pc.
TaskGoto(w, pc, task, total) ==
    /\ req' = [req EXCEPT ![w] = [@ EXCEPT !.pc = pc,
                                           !.input = TaskInput(w, task),
                                           !.trace = StoreOp([@ EXCEPT !.handler = TRUE]),
                                           !.total = total]]
    /\ UNCHANGED out

\* The request of worker w, carrying task, is answered with resp after ops
\* more store operations.
TaskDone(w, task, resp, ops) ==
    Done(w, "tasks", TaskInput(w, task), resp,
         [req[w].trace EXCEPT !.handler = TRUE, !.storeOps = @ + ops])

\* The response body of a task handler that succeeds.
TaskResponse(status, data) ==
    [NoResponse EXCEPT !.status = status, !.data = data]

\* The page and the limit GetTasks makes of its query parameters.
Page(query) ==
    LET page == Atoi(GetQueryDefault(query.page, <<"1">>))
    IN  IF page < 1 THEN 1 ELSE page

Limit(query) ==
    LET limit == Atoi(GetQueryDefault(query.limit, <<"1", "0">>))
    IN  IF limit < 1 \/ limit > 100 THEN 10 ELSE limit

\* skip := (page - 1) * limit
Skip(query) == WrapInt((Page(query) - 1) * Limit(query))

\* The field and the direction GetTasks sorts by.
SortField(query) == IF query.sort # "" THEN query.sort ELSE "createdAt"

SortOrder(query) ==
    IF query.sort = "" THEN 0 - 1
    ELSE IF GetQueryDefault(query.sortDir, <<"asc">>) = <<"desc">> THEN 0 - 1
    ELSE 1

\* GetTasks, up to and including CountDocuments.
GetTasks(w, query, storeOk) ==
    /\ AtHandler(w)
    /\ LET task == [NoTaskRequest EXCEPT !.handler = "GetTasks", !.query = query]
           found == MatchQuery(tasks, req[w].userId, query.completed, query.priority)
       IN  IF req[w].userId = Null
           THEN TaskDone(w, task, NotAuthenticated, 0)
           ELSE IF ~storeOk
           THEN TaskDone(w, task,
                         Failure(StatusInternalServerError, "Failed to count tasks"), 1)
           ELSE TaskGoto(w, "find", task, Cardinality(found))
    /\ UNCHANGED <<users, now, issued, history, tasks>>

\* GetTasks: Find and cursor.All; cursor tells which of the two fails, if any.
\* The store refuses a Find with a negative skip.
GetTasksFind(w, cursor) ==
    /\ req[w].op = "tasks"
    /\ req[w].pc = "find"
    /\ LET task == req[w].input.task
           query == task.query
           page == Page(query)
           limit == Limit(query)
           skip == Skip(query)
           found == MatchQuery(tasks, req[w].userId, query.completed, query.priority)
           total == req[w].total
       IN  IF cursor = "find" \/ skip < 0
           THEN TaskDone(w, task,
                         Failure(StatusInternalServerError, "Failed to fetch tasks"), 1)
           ELSE IF cursor = "all"
           THEN TaskDone(w, task,
                         Failure(StatusInternalServerError, "Failed to parse tasks"), 1)
           ELSE \E data \in Find(tasks, found, SortField(query), SortOrder(query),
                                 skip, limit) :
                  TaskDone(w, task,
                           [TaskResponse(StatusOK, data) EXCEPT
                               !.count = Len(data),
                               !.pagination =
                                   [total |-> total, page |-> page, limit |-> limit,
                                    totalPages |-> (total + limit - 1) \div limit]],
                           1)
    /\ UNCHANGED <<users, now, issued, history, tasks>>

\* GetTask
GetTask(w, id, storeOk) ==
    /\ AtHandler(w)
    /\ LET task == [NoTaskRequest EXCEPT !.handler = "GetTask", !.id = id]
           objectID == ObjectIDFromHex(id)
           found == MatchId(tasks, objectID)
       IN  IF req[w].userId = Null
           THEN TaskDone(w, task, NotAuthenticated, 0)
           ELSE IF objectID = Null
           THEN TaskDone(w, task, Failure(StatusBadRequest, "Invalid task ID format"), 0)
           ELSE IF ~storeOk
           THEN TaskDone(w, task,
                         Failure(StatusInternalServerError, "Failed to fetch task"), 1)
           ELSE IF found = {}
           THEN TaskDone(w, task, Failure(StatusNotFound, "Task not found"), 1)
           ELSE \E i \in found :
                  IF ~Owns(tasks[i], req[w].userId)
                  THEN TaskDone(w, task,
                                Failure(StatusForbidden,
                                        "Not authorized to access this task"), 1)
                  ELSE TaskDone(w, task, TaskResponse(StatusOK, <<tasks[i]>>), 1)
    /\ UNCHANGED <<users, now, issued, history, tasks>>

\* CreateTask
CreateTask(w, body, storeOk) ==
    /\ AtHandler(w)
    /\ LET task == [NoTaskRequest EXCEPT !.handler = "CreateTask", !.body = body]
           new == [NewTask(body.title, req[w].userId, now) EXCEPT
                      !.Description = body.description,
                      !.Completed = body.completed,
                      !.DueDate = body.dueDate,
                      !.Priority = IF body.priority # "" THEN body.priority ELSE @]
       IN  IF req[w].userId = Null
           THEN TaskDone(w, task, NotAuthenticated, 0) /\ UNCHANGED tasks
           ELSE IF body.malformed \/ body.title = ""
           THEN /\ TaskDone(w, task, Failure(StatusBadRequest, "Invalid input data"), 0)
                /\ UNCHANGED tasks
           ELSE IF ~ValidPriority(body.priority)
           THEN /\ TaskDone(w, task,
                            Failure(StatusBadRequest,
                                    "Priority must be one of: low, medium, high"), 0)
                /\ UNCHANGED tasks
           ELSE IF ~storeOk
           THEN /\ TaskDone(w, task,
                            Failure(StatusInternalServerError, "Failed to create task"), 1)
                /\ UNCHANGED tasks
           ELSE /\ Len(tasks) < MaxTasks
                /\ tasks' = InsertOne(tasks, new)
                /\ TaskDone(w, task,
                            TaskResponse(StatusCreated,
                                         <<[new EXCEPT !.ID = Len(tasks) + 1]>>), 1)
    /\ UNCHANGED <<users, now, issued, history>>

\* UpdateTask, up to and including the FindOne of the existing task and the
\* ownership check.
UpdateTask(w, id, body, storeOk) ==
    /\ AtHandler(w)
    /\ LET task == [NoTaskRequest EXCEPT !.handler = "UpdateTask", !.id = id,
                                         !.body = body]
           objectID == ObjectIDFromHex(id)
           found == MatchId(tasks, objectID)
       IN  IF req[w].userId = Null
           THEN TaskDone(w, task, NotAuthenticated, 0)
           ELSE IF objectID = Null
           THEN TaskDone(w, task, Failure(StatusBadRequest, "Invalid task ID format"), 0)
           ELSE IF body.malformed
           THEN TaskDone(w, task, Failure(StatusBadRequest, "Invalid input data"), 0)
           ELSE IF ~ValidPriority(body.priority)
           THEN TaskDone(w, task,
                         Failure(StatusBadRequest,
                                 "Priority must be one of: low, medium, high"), 0)
           ELSE IF ~storeOk
           THEN TaskDone(w, task,
                         Failure(StatusInternalServerError, "Failed to fetch task"), 1)
           ELSE IF found = {}
           THEN TaskDone(w, task, Failure(StatusNotFound, "Task not found"), 1)
           ELSE \E i \in found :
                  IF ~Owns(tasks[i], req[w].userId)
                  THEN TaskDone(w, task,
                                Failure(StatusForbidden,
                                        "Not authorized to update this task"), 1)
                  ELSE TaskGoto(w, "update", task, 0)
    /\ UNCHANGED <<users, now, issued, history, tasks>>

\* UpdateTask: the UpdateOne.
UpdateTaskUpdate(w, storeOk) ==
    /\ req[w].op = "tasks"
    /\ req[w].pc = "update"
    /\ LET task == req[w].input.task
       IN  IF ~storeOk
           THEN /\ TaskDone(w, task,
                            Failure(StatusInternalServerError, "Failed to update task"), 1)
                /\ UNCHANGED tasks
           ELSE /\ tasks' = UpdateOneTask(tasks, ObjectIDFromHex(task.id), task.body, now)
                /\ TaskGoto(w, "refetch", task, 0)
    /\ UNCHANGED <<users, now, issued, history>>

\* UpdateTask: the FindOne of the updated task.
UpdateTaskRefetch(w, storeOk) ==
    /\ req[w].op = "tasks"
    /\ req[w].pc = "refetch"
    /\ LET task == req[w].input.task
           found == MatchId(tasks, ObjectIDFromHex(task.id))
       IN  IF ~storeOk \/ found = {}
           THEN TaskDone(w, task,
                         Failure(StatusInternalServerError,
                                 "Failed to retrieve updated task"), 1)
           ELSE \E i \in found : TaskDone(w, task, TaskResponse(StatusOK, <<tasks[i]>>), 1)
    /\ UNCHANGED <<users, now, issued, history, tasks>>

\* DeleteTask, up to and including the FindOne of the task and the ownership
\* check.
DeleteTask(w, id, storeOk) ==
    /\ AtHandler(w)
    /\ LET task == [NoTaskRequest EXCEPT !.handler = "DeleteTask", !.id = id]
           objectID == ObjectIDFromHex(id)
           found == MatchId(tasks, objectID)
       IN  IF req[w].userId = Null
           THEN TaskDone(w, task, NotAuthenticated, 0)
           ELSE IF objectID = Null
           THEN TaskDone(w, task, Failure(StatusBadRequest, "Invalid task ID format"), 0)
           ELSE IF ~storeOk
           THEN TaskDone(w, task,
                         Failure(StatusInternalServerError, "Failed to fetch task"), 1)
           ELSE IF found = {}
           THEN TaskDone(w, task, Failure(StatusNotFound, "Task not found"), 1)
           ELSE \E i \in found :
                  IF ~Owns(tasks[i], req[w].userId)
                  THEN TaskDone(w, task,
                                Failure(StatusForbidden,
                                        "Not authorized to delete this task"), 1)
                  ELSE TaskGoto(w, "delete", task, 0)
    /\ UNCHANGED <<users, now, issued, history, tasks>>

\* DeleteTask: the DeleteOne.
DeleteTaskDelete(w, storeOk) ==
    /\ req[w].op = "tasks"
    /\ req[w].pc = "delete"
    /\ LET task == req[w].input.task
       IN  IF ~storeOk
           THEN /\ TaskDone(w, task,
                            Failure(StatusInternalServerError, "Failed to delete task"), 1)
                /\ UNCHANGED tasks
           ELSE /\ tasks' = DeleteOne(tasks, ObjectIDFromHex(task.id))
                /\ TaskDone(w, task, TaskResponse(StatusOK, <<>>), 1)
    /\ UNCHANGED <<users, now, issued, history>>

\* The client takes the response.
Deliver ==
    /\ ~Delivered
    /\ out' = NoOut
    /\ UNCHANGED <<users, now, issued, req, history, tasks>>

\* ------------------------------------------------------------------ logging
\* The path a public route or /auth/logout is mounted at.
Path(op) ==
    CASE op = "register" -> "/auth/register"
      [] op = "login" -> "/auth/login"
      [] op = "refresh" -> "/auth/refresh-token"
      [] op = "logout" -> "/auth/logout"
      [] OTHER -> "/"

\* Logger.LogRequest: the line the request logger writes for the answered
\* request o, as the sequence of the strings it is formatted from.
LogRequest(o) ==
    <<"POST", ToString(o.resp.status), "<latency>", "<clientIP>", Path(o.op),
      "<userAgent>">>

\* The line the handler of Register, Login, RefreshToken or Logout writes for
\* the answered request o, as the sequence of the strings it is concatenated
\* from; name is the username of the user a token pair went to.
HandlerLog(o, name) ==
    LET e == o.resp.error
    IN  CASE e = "Invalid input data" /\ o.op = "register" ->
               <<"Registration failed: Invalid input data">>
          [] e = "Username or email already in use" ->
               <<"Registration failed: Username or email already in use: ",
                 o.input.email>>
          [] e = "Failed to check existing users" ->
               <<"Registration failed: Database error while checking existing users">>
          [] e = "Failed to create user" ->
               <<"Registration failed: Database error while creating user">>
          [] e = "Failed to generate authentication tokens" /\ o.op = "register" ->
               <<"Registration failed: Error sending token response: ", "<err>">>
          [] e = "" /\ o.op = "register" ->
               <<"User registered successfully: ", o.input.username, " (",
                 o.input.email, ")">>
          [] e = "Invalid input data" /\ o.op = "login" ->
               <<"Login failed: Invalid input data">>
          [] e = "Invalid credentials" /\ name = "" ->
               <<"Login failed: Invalid credentials for email: ", o.input.email>>
          [] e = "Invalid credentials" /\ name # "" ->
               <<"Login failed: Invalid password for user: ", o.input.email>>
          [] e = "Failed to find user" ->
               <<"Login failed: Database error while finding user">>
          [] e = "Failed to generate authentication tokens" /\ o.op = "login" ->
               <<"Login failed: Error sending token response: ", "<err>">>
          [] e = "" /\ o.op = "login" ->
               <<"User logged in successfully: ", name, " (", o.input.email, ")">>
          [] e = "Not authenticated" ->
               <<"Logout failed: User not authenticated">>
          [] e = "Failed to complete logout" ->
               <<"Logout failed: Error updating user record: ", "<err>">>
          [] e = "" /\ o.op = "logout" ->
               <<"User logged out successfully: ", ToString(o.input.header.jwt.id)>>
          [] e = "Refresh token is required" ->
               <<"Token refresh failed: Invalid input data">>
          [] e = "Invalid or expired refresh token" ->
               <<"Token refresh failed: Invalid or expired refresh token">>
          [] e = "Failed to validate refresh token" ->
               <<"Token refresh failed: Database error: ", "<err>">>
          [] e = "Failed to generate authentication tokens" /\ o.op = "refresh" ->
               <<"Token refresh failed: Error sending token response: ", "<err>">>
          [] e = "" /\ o.op = "refresh" ->
               <<"Tokens refreshed successfully for user: ", name>>
          [] OTHER -> <<>>

\* ------------------------------------------------------------------ clients
\* Access tokens as GenerateAccessToken signs them, for any identity, fresh
\* or one lifetime old.
Signed(t) ==
    {GenerateAccessToken(Hex(id), at) :
        id \in 1..MaxUsers, at \in {t, t - AccessTokenLifetime}}

\* The Authorization headers clients send at time t.
Headers(t) ==
    {NoHeader, [text |-> <<"Token", " ", "abc">>, jwt |-> NoJWT]}
        \cup {Bearer(j) : j \in Signed(t)}
        \cup {Bearer([GenerateAccessToken(Hex(1), t) EXCEPT !.sig = "tampered"])}

\* ---------------------------------------------- clients of protected routes
\* The k-th instant of the clock of SpecProtect: 0, one tick later, one access
\* token lifetime after 0, one tick later, ...
ProtectInstant(k) == (k \div 2) * AccessTokenLifetime + (k % 2)

TickProtect ==
    /\ Delivered
    /\ \E k \in 0..(MaxProtectTicks - 1) :
          /\ now = ProtectInstant(k)
          /\ now' = ProtectInstant(k + 1)
    /\ UNCHANGED <<users, issued, req, out, history, tasks>>

\* The instants up to t at which an access token can have been issued.
IssueTimes(t) == {ProtectInstant(k) : k \in 0..MaxProtectTicks} \cap 0..t

\* The accounts of RegisterInputs, in the order they register.
Accounts ==
    <<[username |-> "alice", email |-> "a@x.io", password |-> "secret1"],
      [username |-> "bob",   email |-> "b@x.io", password |-> "secret2"]>>

\* The user collection after the first n accounts have registered at time 0:
\* InsertOne of NewUser, then the UpdateOne of sendTokenResponse.
RECURSIVE Registered(_)
Registered(n) ==
    IF n = 0 THEN <<>>
    ELSE LET a == Accounts[n]
             gen == GenerateRefreshToken(n, 0)
             doc == NewUser(a.username, a.email, BcryptHash(a.password, "s1"))
         IN  UpdateOne(InsertOne(Registered(n - 1), doc), n, gen[2], gen[3])

InitProtect ==
    /\ \E n \in {k \in 0..Len(Accounts) : k <= MaxUsers} :
          /\ users = Registered(n)
          /\ issued = n
          /\ lastWrite = [u \in 1..MaxUsers |->
                            IF u <= n THEN [token |-> u, by |-> "issue", at |-> 0]
                            ELSE NoWrite]
    /\ now = 0
    /\ req = [w \in Workers |-> Idle]
    /\ exchanged = [t \in Plaintexts |-> {}]
    /\ out = NoOut
    /\ tasks = <<>>

\* The tokens a client can put in a header at time t: the access tokens issued
\* so far, and tokens GenerateAccessToken never makes.
Presented(t) ==
    LET good == GenerateAccessToken(Hex(1), t)
    IN  {GenerateAccessToken(Hex(id), at) : id \in 1..MaxUsers, at \in IssueTimes(t)}
          \cup {[good EXCEPT !.sig = "tampered"],
                [good EXCEPT !.alg = "none", !.sig = ""],
                [good EXCEPT !.alg = "RS256"],
                [good EXCEPT !.exp = Null],
                [good EXCEPT !.id = [kind |-> "absent", v |-> Null]],
                [good EXCEPT !.id = [kind |-> "number", v |-> 1]],
                [good EXCEPT !.id = [kind |-> "string", v |-> 1]]}

\* The texts of an Authorization header that carry a token, and those that
\* carry none.
TokenTexts ==
    {<<"Bearer", " ", "<jwt>">>, <<"bearer", " ", "<jwt>">>,
     <<"Token", " ", "<jwt>">>, <<"Bearer", " ", "<jwt>", " ", "b">>,
     <<"Bearer", " ", " ", "<jwt>">>}

BareTexts ==
    {<<>>, <<"Bearer">>, <<"Bearer", " ">>, <<"Bearer", " ", "abc">>,
     <<"Token", " ", "abc">>}

\* Every kind of Authorization header a client can send at time t.
AllHeaders(t) ==
    {[text |-> x, jwt |-> NoJWT] : x \in BareTexts}
        \cup {[text |-> x, jwt |-> j] : x \in TokenTexts, j \in Presented(t)}

NextProtect ==
    \/ TickProtect
    \/ Deliver
    \/ \E r \in ProtectedRoutes, h \in AllHeaders(now), storeOk \in BOOLEAN :
          Protect(1, r, h, storeOk)
    \/ \E storeOk \in BOOLEAN : Logout(1, storeOk)
    \/ GetMe(1)
    \/ TaskHandler(1)

\* ------------------------------------------------------- clients of /tasks
\* The ids clients put in the path: the ids the collection gives out, and a
\* text that is no id.
TaskIds == {Hex(k) : k \in 1..MaxTasks} \cup {[kind |-> "string", v |-> Null]}

\* The bodies clients send to CreateTask.
CreateBodies ==
    {[NoBody EXCEPT !.title = "t1", !.priority = p] : p \in {"", "high", "urgent"}}
        \cup {NoBody, [NoBody EXCEPT !.malformed = TRUE]}

\* The bodies clients send to UpdateTask.
UpdateBodies ==
    {NoBody,
     [NoBody EXCEPT !.completed = TRUE],
     [NoBody EXCEPT !.priority = "high"],
     [NoBody EXCEPT !.priority = "urgent"],
     [NoBody EXCEPT !.malformed = TRUE]}

\* The decimal text of the natural number n.
RECURSIVE Itoa(_)
Itoa(n) ==
    IF n < 10 THEN <<Digits[n + 1]>>
    ELSE Append(Itoa(n \div 10), Digits[(n % 10) + 1])

\* The query strings clients send to GetTasks; among the pages are one whose
\* skip is a whole multiple of the range of an int, and the first number that
\* is too large for an int.
Queries ==
    {NoQuery,
     [NoQuery EXCEPT !.completed = "true"],
     [NoQuery EXCEPT !.priority = "high"],
     [NoQuery EXCEPT !.sort = "title", !.sortDir = <<"desc">>],
     [NoQuery EXCEPT !.page = <<"2">>, !.limit = <<"1">>],
     [NoQuery EXCEPT !.page = <<"x">>, !.limit = <<"0">>],
     [NoQuery EXCEPT !.page = <<"-", "1">>, !.limit = <<"1", "0", "1">>],
     [NoQuery EXCEPT !.page = Itoa(2 ^ (IntBits - 2) + 1), !.limit = <<"4">>],
     [NoQuery EXCEPT !.page = Itoa(2 ^ (IntBits - 1))]}

\* The user collection holds the accounts, the task collection is empty.
InitTasks ==
    /\ \E n \in {k \in 0..Len(Accounts) : k = Len(Accounts) \/ k = MaxUsers} :
          /\ n <= MaxUsers
          /\ n <= Len(Accounts)
          /\ users = Registered(n)
          /\ issued = n
          /\ lastWrite = [u \in 1..MaxUsers |->
                            IF u <= n THEN [token |-> u, by |-> "issue", at |-> 0]
                            ELSE NoWrite]
    /\ now = 0
    /\ req = [w \in Workers |-> Idle]
    /\ exchanged = [t \in Plaintexts |-> {}]
    /\ out = NoOut
    /\ tasks = <<>>

NextTasks ==
    \/ Deliver
    \/ \E u \in 1..MaxUsers, storeOk \in BOOLEAN :
          Protect(1, "tasks", Bearer(GenerateAccessToken(Hex(u), now)), storeOk)
    \/ Protect(1, "tasks", NoHeader, TRUE)
    \/ \E q \in Queries, storeOk \in BOOLEAN : GetTasks(1, q, storeOk)
    \/ \E cursor \in {"ok", "find", "all"} : GetTasksFind(1, cursor)
    \/ \E id \in TaskIds, storeOk \in BOOLEAN : GetTask(1, id, storeOk)
    \/ \E body \in CreateBodies, storeOk \in BOOLEAN : CreateTask(1, body, storeOk)
    \/ \E id \in TaskIds, body \in UpdateBodies, storeOk \in BOOLEAN :
          UpdateTask(1, id, body, storeOk)
    \/ \E storeOk \in BOOLEAN : UpdateTaskUpdate(1, storeOk)
    \/ \E storeOk \in BOOLEAN : UpdateTaskRefetch(1, storeOk)
    \/ \E id \in TaskIds, storeOk \in BOOLEAN : DeleteTask(1, id, storeOk)
    \/ \E storeOk \in BOOLEAN : DeleteTaskDelete(1, storeOk)

\* One step of the request served by worker w.
Step(w) ==
    \E storeOk \in BOOLEAN :
        \/ \E i \in RegisterInputs, s \in Salts :
              Register(w, i.username, i.email, i.password, storeOk, s)
        \/ RegisterInsert(w, storeOk)
        \/ \E i \in LoginInputs : Login(w, i.email, i.password, storeOk)
        \/ \E t \in Plaintexts \cup {Null} : RefreshToken(w, t, storeOk)
        \/ SendTokenResponse(w, storeOk)
        \/ \E r \in ProtectedRoutes, h \in Headers(now) : Protect(w, r, h, storeOk)
        \/ Logout(w, storeOk)
        \/ GetMe(w)
        \/ TaskHandler(w)

Next == Tick \/ Deliver \/ Step(1)

NextRace == \E w \in Workers : Step(w)

Spec == Init /\ [][Next]_vars

SpecRace == InitRace /\ [][NextRace]_vars

SpecProtect == InitProtect /\ [][NextProtect]_vars

SpecTasks == InitTasks /\ [][NextTasks]_vars

\* The steps that continue the request worker w is serving.  A handler runs on
\* a goroutine of its own, and each of its store calls returns, with a result
\* or with an error, before its context times out.
Serve(w) ==
    \E storeOk \in BOOLEAN :
        \/ RegisterInsert(w, storeOk)
        \/ SendTokenResponse(w, storeOk)
        \/ Logout(w, storeOk)
        \/ GetMe(w)
        \/ TaskHandler(w)

\* Spec with the handlers scheduled: clients and the clock are free to stop.
SpecLive == Init /\ [][Next]_vars /\ WF_vars(Serve(1))

\* ---------------------------------------------------------------- properties
InvalidRefreshToken ==
    Failure(StatusUnauthorized, "Invalid or expired refresh token")

\* The refresh tokens that RefreshToken requests have handed out.
Rotated == UNION {exchanged[t] : t \in Plaintexts}

\* The refresh token u's record holds since the last update of its refresh
\* fields: no rotation, login or logout of u has happened since t was stored.
Current(u, t) == lastWrite[u].by = "issue" /\ lastWrite[u].token = t

\* A RefreshToken request that gets as far as sendTokenResponse, the store
\* answering, replaces the digest of the token it presented by the digest of
\* the token it hands out.
Rotates ==
    SendTokenResponse(1, TRUE) /\ req[1].op = "refresh" =>
        /\ out'.resp.status = StatusOK
        /\ out'.resp.refreshToken # req[1].input.refreshToken
        /\ users'[req[1].user.ID].RefreshToken = HashString(out'.resp.refreshToken)

\* A RefreshToken request that presents a token an earlier RefreshToken
\* request has exchanged is answered 401 InvalidRefreshToken.
OldRejected(t) ==
    exchanged[t] # {} => out'.resp = InvalidRefreshToken /\ req'[1].pc = "idle"

\* C1, as stated: after a refresh has replaced digest D1 by D2, every later
\* refresh with the old plaintext fails with 401 InvalidRefreshToken, and a
\* refresh with the new plaintext succeeds until the next rotation or
\* revocation of the identity.
C1_RotationAsStated ==
    [][/\ Rotates
       /\ \A t \in Plaintexts :
             RefreshToken(1, t, TRUE) =>
                 /\ OldRejected(t)
                 /\ \A u \in 1..MaxUsers :
                       t \in Rotated /\ Current(u, t) => req'[1].pc = "issue"]_vars

\* C1, amended: after a refresh has replaced digest D1 by D2, every later
\* refresh with the old plaintext fails with 401 InvalidRefreshToken, and a
\* refresh with the new plaintext is accepted until the next rotation or
\* revocation of the identity or until RefreshTokenLifetime has passed since
\* the new token was issued, whichever comes first; from then on it is
\* rejected as well.
C1_Rotation ==
    [][/\ Rotates
       /\ \A t \in Plaintexts :
             RefreshToken(1, t, TRUE) =>
                 /\ OldRejected(t)
                 /\ \A u \in 1..MaxUsers :
                       t \in Rotated /\ Current(u, t) =>
                           IF now < lastWrite[u].at + RefreshTokenLifetime
                           THEN req'[1].pc = "issue"
                           ELSE out'.resp = InvalidRefreshToken]_vars

\* A refresh with a plaintext that a rotation has replaced has been answered
\* 401, while the token that replaced it is still the identity's current one.
C1_Witness ==
    /\ out.op = "refresh"
    /\ out.input.refreshToken \in Plaintexts
    /\ out.resp = InvalidRefreshToken
    /\ \E n \in exchanged[out.input.refreshToken] : \E u \in 1..MaxUsers : Current(u, n)

\* C2, as stated: of two concurrent refresh requests that present the same
\* valid refresh token at most one returns a success response with a new token
\* pair, in every interleaving of their lookups and updates.
C2_AtMostOneSucceeds ==
    \A t \in Plaintexts : Cardinality(exchanged[t]) <= 1

\* C3: last writer wins.  When token-issuing requests for one identity race,
\* the stored digest and expiry are those of the last store update, and every
\* other refresh token that was handed out is rejected by the lookup of
\* RefreshToken, which answers 401 InvalidRefreshToken.
C3_LastWriterWins ==
    /\ \A u \in DOMAIN users :
          lastWrite[u].by = "issue" =>
              /\ users[u].RefreshToken = HashString(lastWrite[u].token)
              /\ users[u].RefreshTokenExpire = lastWrite[u].at + RefreshTokenLifetime
    /\ \A t \in 1..issued :
          (\A u \in 1..MaxUsers : ~Current(u, t)) =>
              MatchRefreshToken(users, HashString(t), now) = {}

\* Two refresh requests raced on one token; both have completed and each has
\* handed out a token.
C3_Witness ==
    /\ \A w \in Workers : req[w].pc = "idle"
    /\ \E t \in Plaintexts :
          /\ Cardinality(exchanged[t]) = 2
          /\ \E n \in exchanged[t] : \E u \in DOMAIN users : Current(u, n)

\* C4: for every identity, in every reachable state of every interleaving of
\* register, login, refresh and logout, the refresh digest and the refresh
\* expiry are both set or both cleared.
C4_BothOrNeither ==
    \A i \in DOMAIN users :
        users[i].RefreshToken = Null <=> users[i].RefreshTokenExpire = Null

\* One identity has both fields set, another has had both cleared by Logout
\* while a token-issuing request is in flight.
C4_Witness ==
    /\ \E i \in DOMAIN users :
          users[i].RefreshToken # Null /\ users[i].RefreshTokenExpire # Null
    /\ \E i \in DOMAIN users :
          /\ lastWrite[i].by = "logout" /\ lastWrite[i].token # Null
          /\ users[i].RefreshToken = Null /\ users[i].RefreshTokenExpire = Null
    /\ \E w \in Workers : req[w].pc = "issue"

\* C5: in every reachable state, the states between the lookup and the update
\* of a rotation included, there is for every identity at most one refresh
\* token plaintext that RefreshToken would accept.
C5_OneLiveToken ==
    \A u \in DOMAIN users :
        Cardinality({t \in Plaintexts :
                        u \in MatchRefreshToken(users, HashString(t), now)}) <= 1

\* A rotation is between its lookup and its update, and another token has
\* been stored for the identity since the lookup.
C5_Witness ==
    \E w \in Workers :
        /\ req[w].op = "refresh"
        /\ req[w].pc = "issue"
        /\ \E t \in Plaintexts \ {req[w].input.refreshToken} :
              req[w].user.ID \in MatchRefreshToken(users, HashString(t), now)

\* C6: RefreshToken accepts a plaintext if and only if its digest equals the
\* stored refresh digest of some identity and the current time is strictly
\* less than the stored refresh expiry of that identity; a token whose stored
\* expiry equals the current time is rejected.
C6_AcceptIffLive ==
    [][\A t \in Plaintexts :
          RefreshToken(1, t, TRUE) =>
              LET live == \E i \in DOMAIN users :
                             /\ users[i].RefreshToken = HashString(t)
                             /\ users[i].RefreshTokenExpire # Null
                             /\ now < users[i].RefreshTokenExpire
              IN  IF live
                  THEN req'[1].pc = "issue" /\ out' = NoOut
                  ELSE req'[1].pc = "idle" /\ out'.resp = InvalidRefreshToken]_vars

\* A refresh with the plaintext of a stored digest whose expiry is the
\* current time has been answered 401.
C6_Witness ==
    /\ out.op = "refresh"
    /\ out.input.refreshToken \in Plaintexts
    /\ out.resp = InvalidRefreshToken
    /\ \E i \in DOMAIN users :
          /\ users[i].RefreshToken = HashString(out.input.refreshToken)
          /\ users[i].RefreshTokenExpire = now

\* C7: after Logout has succeeded for an identity, and until a token is issued
\* to the identity again, the refresh token that Logout revoked is not
\* accepted: the lookup of RefreshToken finds no record for it, no request
\* presenting it reaches sendTokenResponse, and while the store answers the
\* response is 401 InvalidRefreshToken.
C7_RevokedRejected ==
    \A u \in 1..MaxUsers :
        lastWrite[u].by = "logout" /\ lastWrite[u].token # Null =>
            LET t == lastWrite[u].token
            IN  /\ MatchRefreshToken(users, HashString(t), now) = {}
                /\ ~(req[1].op = "refresh" /\ req[1].input.refreshToken = t)
                /\ out.op = "refresh" /\ out.input.refreshToken = t =>
                      out.resp \in {InvalidRefreshToken,
                                    Failure(StatusInternalServerError,
                                            "Failed to validate refresh token")}

\* A refresh with the token that a Logout revoked has been answered 401.
C7_Witness ==
    \E u \in 1..MaxUsers :
        /\ lastWrite[u].by = "logout"
        /\ lastWrite[u].token # Null
        /\ out.op = "refresh"
        /\ out.input.refreshToken = lastWrite[u].token
        /\ out.resp = InvalidRefreshToken

\* C8: a Logout whose update the store accepts answers 200, leaves both
\* refresh fields of the authenticated identity cleared and every other record
\* as it was; when the two fields are cleared already, it leaves the store as
\* it was.
C8_LogoutIdempotent ==
    [][req[1].userId # Null /\ Logout(1, TRUE) =>
          LET u == req[1].userId
          IN  /\ out'.resp.status = StatusOK
              /\ DOMAIN users' = DOMAIN users
              /\ users'[u].RefreshToken = Null
              /\ users'[u].RefreshTokenExpire = Null
              /\ \A v \in DOMAIN users \ {u} : users'[v] = users[v]
              /\ (users[u].RefreshToken = Null /\ users[u].RefreshTokenExpire = Null
                    => users' = users)]_vars

\* A Logout of the only identity, which has been issued a token and has been
\* cleared by a Logout before, has been answered 200.
C8_Witness ==
    /\ out.op = "logout"
    /\ out.resp.status = StatusOK
    /\ out.trace.outcome = "Authenticated"
    /\ Len(users) = 1
    /\ issued > 0
    /\ LET u == ObjectIDFromHex(out.input.header.jwt.id)
       IN  /\ u = 1
           /\ lastWrite[u] = [token |-> Null, by |-> "logout", at |-> Null]
           /\ users[u].RefreshToken = Null
           /\ users[u].RefreshTokenExpire = Null

\* C9: the handler of a protected route runs if and only if Protect reached
\* Authenticated; the user attached to the request is the stored record whose
\* id is the id claim of the presented access token; a request that Protect
\* rejects is answered by Protect with 401 or 500 and its handler does not run.
C9_HandlerIffAuthenticated ==
    /\ out.op \in ProtectedRoutes =>
          /\ out.trace.handler <=> out.trace.outcome = "Authenticated"
          /\ out.trace.outcome # "Authenticated" =>
                out.resp.status \in {StatusUnauthorized, StatusInternalServerError}
    /\ req[1].pc = "handler" =>
          /\ req[1].op \in ProtectedRoutes
          /\ req[1].trace.outcome = "Authenticated"
          /\ ~req[1].trace.handler
          /\ req[1].input.header.jwt.id = Hex(req[1].userId)
          /\ req[1].userId \in DOMAIN users
          /\ req[1].user.ID = req[1].userId
          /\ req[1].user = Decode(users[req[1].userId])

\* Protect has reached Authenticated for the second identity and the handler
\* of the route is about to run with that identity attached.
C9_Witness ==
    /\ req[1].pc = "handler"
    /\ req[1].op = "tasks"
    /\ req[1].userId = 2
    /\ req[1].user.Username = "bob"

\* C10: a request to a protected route with no Authorization header ends in
\* Rejected(MissingHeader) with status 401: the token codec has not run, the
\* store has not been consulted and the handler has not run.
C10_MissingHeader ==
    /\ out.op \in ProtectedRoutes /\ out.input.header.text = <<>> =>
          /\ out.trace = [outcome |-> "MissingHeader", parsed |-> FALSE,
                          storeOps |-> 0, handler |-> FALSE]
          /\ out.resp = Failure(StatusUnauthorized, "Authorization header required")
    /\ req[1].op \in ProtectedRoutes => req[1].input.header.text # <<>>

\* A request to a protected route with no Authorization header has been
\* answered, with users in the store.
C10_Witness ==
    /\ out.op \in ProtectedRoutes
    /\ out.input.header = NoHeader
    /\ out.resp.status = StatusUnauthorized
    /\ users # <<>>

\* A header text of exactly two space-separated parts, the first of them the
\* scheme "Bearer".
BearerFormat(text) ==
    \E k \in 1..Len(text) :
        /\ text[k] = " "
        /\ \A j \in 1..Len(text) : j # k => text[j] # " "
        /\ SubSeq(text, 1, k - 1) = <<"Bearer">>

\* C11: a request whose Authorization header is present and is not exactly two
\* space-separated parts with the first part "Bearer" ends in
\* Rejected(MalformedHeader) with status 401; the token has not been parsed,
\* the store has not been consulted and the handler has not run.
C11_MalformedHeader ==
    /\ out.op \in ProtectedRoutes
         /\ out.input.header.text # <<>>
         /\ ~BearerFormat(out.input.header.text) =>
            /\ out.trace = [outcome |-> "MalformedHeader", parsed |-> FALSE,
                            storeOps |-> 0, handler |-> FALSE]
            /\ out.resp = Failure(StatusUnauthorized,
                                  "Invalid authorization format, use Bearer {token}")
    /\ req[1].pc = "handler" => BearerFormat(req[1].input.header.text)

\* A request with scheme "bearer" and a token that is good for a stored
\* identity has been rejected as malformed.
C11_Witness ==
    /\ out.op \in ProtectedRoutes
    /\ out.input.header =
          [text |-> <<"bearer", " ", "<jwt>">>, jwt |-> GenerateAccessToken(Hex(1), now)]
    /\ out.trace.outcome = "MalformedHeader"
    /\ users # <<>>

\* C12, as stated: every access token verification failure in Protect (bad
\* signature, wrong signing algorithm, expired token, missing or non-string id
\* claim, id that is not an identifier) produces one and the same response.
C12_OneInvalidTokenResponse ==
    out.op \in ProtectedRoutes /\ out.trace.outcome = "InvalidToken" =>
        out.resp = Failure(StatusUnauthorized, "Invalid or expired token")

\* The request that a step has just passed through Protect: its route, its
\* header and what it has done, whether Protect answered it or passed it on.
Passed == IF req'[1].pc = "handler" THEN req'[1] ELSE out'

\* The step is Protect serving the request Passed.
ProtectRuns ==
    \E storeOk \in BOOLEAN : Protect(1, Passed.op, Passed.input.header, storeOk)

\* The token of header h has an HMAC algorithm, a good signature and, at
\* time t, an expiry that is absent or still ahead.
Verified(h, t) ==
    /\ BearerFormat(h.text)
    /\ h.text[Len(h.text)] = "<jwt>"
    /\ h.jwt.alg \in SigningMethodHMAC
    /\ h.jwt.sig = "valid"
    /\ h.jwt.exp = Null \/ t < NumericDate(h.jwt.exp)

\* C13: in every execution of Protect the store is consulted only after the
\* access token has passed the signature, algorithm and expiry checks, and a
\* request that ends in MissingHeader, MalformedHeader or InvalidToken has
\* made no store operation.
C13_StoreAfterVerification ==
    [][ProtectRuns =>
          /\ Passed.trace.storeOps > 0 =>
                Passed.trace.parsed /\ Verified(Passed.input.header, now)
          /\ Passed.trace.outcome \in {"MissingHeader", "MalformedHeader", "InvalidToken"}
                => Passed.trace.storeOps = 0]_vars

\* The expired access token of a stored identity has been rejected without a
\* store operation.
C13_Witness ==
    /\ out.op \in ProtectedRoutes
    /\ users # <<>>
    /\ now >= AccessTokenLifetime
    /\ out.input.header = Bearer(GenerateAccessToken(Hex(1), 0))
    /\ out.trace.outcome = "InvalidToken"
    /\ out.trace.storeOps = 0

\* The ids of the stored records.
StoredIds == {users[i].ID : i \in DOMAIN users}

\* C14: a request with a validly signed, unexpired access token whose id
\* matches no stored record ends, when the store answers, in
\* Rejected(UnknownIdentity) with status 401, and its handler does not run.
C14_UnknownIdentity ==
    /\ out.op \in ProtectedRoutes
         /\ Verified(out.input.header, now)
         /\ ObjectIDFromHex(out.input.header.jwt.id) \notin StoredIds \cup {Null} =>
            /\ ~out.trace.handler
            /\ out.trace.outcome \in {"UnknownIdentity", "StoreUnavailable"}
            /\ out.trace.outcome = "UnknownIdentity" =>
                  out.resp = Failure(StatusUnauthorized, "User not found")
    /\ out.trace.outcome = "UnknownIdentity" =>
          ObjectIDFromHex(out.input.header.jwt.id) \notin StoredIds
    /\ req[1].pc = "handler" =>
          ObjectIDFromHex(req[1].input.header.jwt.id) \in StoredIds

\* The fresh access token of an identity that is not in the store, presented
\* to a store that holds another identity, has been rejected.
C14_Witness ==
    /\ out.op \in ProtectedRoutes
    /\ Len(users) = 1
    /\ out.input.header = Bearer(GenerateAccessToken(Hex(2), now))
    /\ out.trace.outcome = "UnknownIdentity"
    /\ out.resp.status = StatusUnauthorized

\* The store operations the request of worker 1 has made before the step.
OpsBefore == IF req[1].pc = "idle" THEN 0 ELSE req[1].trace.storeOps

\* The step ends the request of worker 1 without success and without tokens,
\* and with status 500 if it made a store operation.
FailsClosed ==
    /\ req'[1].pc = "idle"
    /\ out'.resp.status # StatusOK
    /\ out'.resp.token = NoJWT
    /\ out'.resp.refreshToken = Null
    /\ out'.trace.storeOps > OpsBefore => out'.resp.status = StatusInternalServerError

\* C15: a store call that fails, fails closed in every operation.  Protect does
\* not reach Authenticated and the handler does not run; Register, Login and
\* RefreshToken, sendTokenResponse included, return no token pair; Logout
\* reports no success; and the response has status 500.
C15_FailClosed ==
    [][/\ \A i \in RegisterInputs, s \in Salts :
             Register(1, i.username, i.email, i.password, FALSE, s) => FailsClosed
       /\ RegisterInsert(1, FALSE) => FailsClosed /\ users' = users
       /\ \A i \in LoginInputs : Login(1, i.email, i.password, FALSE) => FailsClosed
       /\ \A t \in Plaintexts \cup {Null} : RefreshToken(1, t, FALSE) => FailsClosed
       /\ SendTokenResponse(1, FALSE) => FailsClosed /\ users' = users
       /\ Protect(1, out'.op, out'.input.header, FALSE) =>
             /\ FailsClosed
             /\ ~out'.trace.handler
             /\ out'.trace.outcome # "Authenticated"
       /\ Protect(1, req'[1].op, req'[1].input.header, FALSE) =>
             req'[1].pc # "handler"
       /\ Logout(1, FALSE) => FailsClosed /\ users' = users]_vars

\* The store has failed under the lookup of Protect for the good token of a
\* stored identity, and the request has been answered 500.
C15_Witness ==
    /\ out.op \in ProtectedRoutes
    /\ out.trace.outcome = "StoreUnavailable"
    /\ out.resp = Failure(StatusInternalServerError, "Failed to authenticate user")
    /\ Verified(out.input.header, now)
    /\ ObjectIDFromHex(out.input.header.jwt.id) \in StoredIds

\* C16, as stated: an access token issued for identity id with lifetime
\* AccessTokenLifetime is verified back to exactly id at every time strictly
\* less than the lifetime after its issuance, and is rejected as expired at
\* every time at or after it.
C16_RoundTrip ==
    [][\A id \in 1..MaxUsers, at \in IssueTimes(now), r \in ProtectedRoutes :
          Protect(1, r, Bearer(GenerateAccessToken(Hex(id), at)), TRUE) =>
              IF now - at < AccessTokenLifetime
              THEN \/ req'[1].pc = "handler" /\ req'[1].userId = id
                   \/ out'.trace.outcome = "UnknownIdentity" /\ id \notin StoredIds
              ELSE out'.resp = Failure(StatusUnauthorized, "Invalid or expired token")]_vars

\* C17: Protect authenticates a request that carries the validly signed,
\* unexpired access token of a stored identity, the store answering, whatever
\* the refresh digest and refresh expiry of the identity are, and attaches the
\* same user whatever they are: after Logout and after a rotation the access
\* token authenticates as before, until its own expiry.
C17_NoRefreshState ==
    [][LET h == Passed.input.header
       IN  Protect(1, Passed.op, h, TRUE)
             /\ Verified(h, now)
             /\ ObjectIDFromHex(h.jwt.id) \in StoredIds =>
              LET id == ObjectIDFromHex(h.jwt.id)
              IN  /\ req'[1].pc = "handler"
                  /\ req'[1].trace.outcome = "Authenticated"
                  /\ req'[1].userId = id
                  /\ \A x \in {Null} \cup {HashString(t) : t \in Plaintexts},
                        y \in {Null, now, now + RefreshTokenLifetime} :
                        /\ MatchId(UpdateOne(users, id, x, y), id) = MatchId(users, id)
                        /\ Decode(UpdateOne(users, id, x, y)[id]) = req'[1].user]_vars

\* The access token of an identity whose refresh fields a Logout has cleared
\* has authenticated a request to /auth/me.
C17_Witness ==
    /\ req[1].op = "me"
    /\ req[1].pc = "handler"
    /\ lastWrite[req[1].userId].by = "logout"
    /\ lastWrite[req[1].userId].token # Null
    /\ users[req[1].userId].RefreshToken = Null
    /\ users[req[1].userId].RefreshTokenExpire = Null

\* C18: a login with an email no record has and a login with the email of a
\* record and a wrong password get the same response, status 401 with the
\* error "Invalid credentials".
C18_LoginIndistinguishable ==
    LET email == out.input.email
        password == out.input.password
        unknown == MatchEmail(users, email) = {}
        wrong == \E i \in MatchEmail(users, email) :
                    ~CompareHashAndPassword(users[i].Password, password)
    IN  out.op = "login" /\ email # "" /\ password # ""
          /\ out.resp.error # "Failed to find user"
          /\ (unknown \/ wrong) =>
            /\ out.resp = Failure(StatusUnauthorized, "Invalid credentials")
            /\ out.trace = StoreOp(Handler)

\* A login with an email that no record has, while the store holds a record,
\* has been answered 401.
C18_Witness ==
    /\ out.op = "login"
    /\ out.input.email = "b@x.io"
    /\ users # <<>>
    /\ MatchEmail(users, out.input.email) = {}
    /\ out.resp = Failure(StatusUnauthorized, "Invalid credentials")

\* Why refresh token t is not good: it was never issued, it is the current
\* token of an identity and has expired, a later issue has replaced it, or a
\* Logout has revoked it.
NeverIssued(t) == t > issued

Expired(t) ==
    \E u \in 1..MaxUsers :
        Current(u, t) /\ now >= lastWrite[u].at + RefreshTokenLifetime

RotatedAway(t) == t <= issued /\ \A u \in 1..MaxUsers : lastWrite[u].token # t

Revoked(t) ==
    \E u \in 1..MaxUsers : lastWrite[u].by = "logout" /\ lastWrite[u].token = t

\* C19: RefreshToken, the store answering, gives one and the same response,
\* 401 InvalidRefreshToken, for a refresh token that was never issued, one
\* that has expired, one that was rotated away and one that was revoked.
C19_RefreshIndistinguishable ==
    [][\A t \in Plaintexts :
          RefreshToken(1, t, TRUE)
            /\ (NeverIssued(t) \/ Expired(t) \/ RotatedAway(t) \/ Revoked(t)) =>
              /\ req'[1].pc = "idle"
              /\ out'.resp = InvalidRefreshToken
              /\ out'.trace = StoreOp(Handler)]_vars

\* A refresh with a token that was never issued, while another identity's
\* token is live, has been answered 401.
C19_Witness ==
    /\ out.op = "refresh"
    /\ out.input.refreshToken \in Plaintexts
    /\ NeverIssued(out.input.refreshToken)
    /\ \E u \in DOMAIN users : lastWrite[u].by = "issue"
    /\ out.resp = InvalidRefreshToken

\* The strings in the log lines written for the request just answered.
Logged ==
    LET name == IF out.resp.user # Null THEN users[out.resp.user].Username
                ELSE IF MatchEmail(users, out.input.email) # {}
                THEN users[CHOOSE i \in MatchEmail(users, out.input.email) : TRUE].Username
                ELSE ""
        lines == HandlerLog(out, name) \o LogRequest(out)
    IN  {lines[k] : k \in DOMAIN lines}

\* C20: the refresh token plaintext is never persisted or logged.  In every
\* reachable state the refresh field of a record is cleared or is the digest
\* of a plaintext that was returned to a client, and is no plaintext; and no
\* log line written for a request to register, login, refresh or logout
\* contains a refresh token plaintext.
C20_PlaintextNotKept ==
    /\ \A i \in DOMAIN users :
          /\ users[i].RefreshToken \in {Null} \cup {HashString(t) : t \in 1..issued}
          /\ users[i].RefreshToken \notin Plaintexts
    /\ out.op \in {"register", "login", "refresh", "logout"} =>
          \A t \in Plaintexts : ToString(t) \notin Logged

\* A refresh has been answered with a new token pair, the digest of the new
\* plaintext is stored, and the handler has logged the success.
C20_Witness ==
    /\ out.op = "refresh"
    /\ out.resp.status = StatusOK
    /\ out.resp.refreshToken \in Plaintexts
    /\ users[out.resp.user].RefreshToken = HashString(out.resp.refreshToken)
    /\ "Tokens refreshed successfully for user: " \in Logged

\* The refresh token of u's record is t and RefreshToken would accept it.
Live(u, t) == u \in MatchRefreshToken(users, HashString(t), now)

\* The step is sendTokenResponse called by Login, the store answering, for an
\* identity whose record holds a refresh token that is still accepted.
SecondLogin ==
    /\ req[1].op = "login"
    /\ SendTokenResponse(1, TRUE)
    /\ lastWrite[req[1].user.ID].by = "issue"
    /\ Live(req[1].user.ID, lastWrite[req[1].user.ID].token)

\* C21, as stated: after a second login for the same identity the refresh
\* token issued to the first session stays valid; the second login does not
\* invalidate it, only the next rotation does.
C21_FirstSessionSurvives ==
    [][SecondLogin =>
          req[1].user.ID \in
              MatchRefreshToken(users', HashString(lastWrite[req[1].user.ID].token),
                                now')]_vars

\* C21, amended: a second login for the same identity invalidates the refresh
\* token of the first session immediately.  From the store update of the
\* second login on the record holds the digest of the second session's token
\* only, and a refresh with the first session's token is answered 401
\* InvalidRefreshToken.
C21_SecondLoginInvalidates ==
    [][/\ SecondLogin =>
             LET u == req[1].user.ID
                 first == lastWrite[u].token
                 second == out'.resp.refreshToken
             IN  /\ out'.resp.status = StatusOK
                 /\ second # first
                 /\ MatchRefreshToken(users', HashString(first), now') = {}
                 /\ MatchRefreshToken(users', HashString(second), now') = {u}
       /\ \A t \in 1..issued :
             RefreshToken(1, t, TRUE) /\ (\A u \in 1..MaxUsers : ~Current(u, t)) =>
                 req'[1].pc = "idle" /\ out'.resp = InvalidRefreshToken]_vars

\* The only identity has logged in a second time, at the time its first token
\* was issued, and a refresh with the first session's token has been answered
\* 401.
C21_Witness ==
    /\ Len(users) = 1
    /\ now = 0
    /\ issued = 2
    /\ Rotated = {}
    /\ Current(1, 2)
    /\ out.op = "refresh"
    /\ out.input.refreshToken = 1
    /\ out.resp = InvalidRefreshToken

\* The records that Protect resolves the access token jwt to at time t: the
\* token passes ProtectToken and the lookup by its id claim finds them.
Resolves(jwt, t) ==
    LET p == ProtectToken(Bearer(jwt), t)
    IN  IF p.outcome = "lookup" THEN MatchId(users, p.userId) ELSE {}

\* C22: a registration that succeeds returns an access token and a refresh
\* token, and Protect resolves that access token to exactly one record, the
\* one this registration created: it carries the username, the email and the
\* password of the request, it is the user of the response, and the digest of
\* the returned refresh token is stored on it.
C22_RegisterThenAuthenticate ==
    out.op = "register" /\ out.resp.status = StatusOK =>
        /\ out.resp.token # NoJWT
        /\ out.resp.refreshToken \in Plaintexts
        /\ \E i \in DOMAIN users :
              /\ Resolves(out.resp.token, now) = {i}
              /\ i = Len(users)
              /\ out.resp.user = users[i].ID
              /\ users[i].Username = out.input.username
              /\ users[i].Email = out.input.email
              /\ CompareHashAndPassword(users[i].Password, out.input.password)
              /\ users[i].RefreshToken = HashString(out.resp.refreshToken)

\* The second identity has registered and has been answered with a token pair
\* while the store holds the record of the first.
C22_Witness ==
    /\ out.op = "register"
    /\ out.resp.status = StatusOK
    /\ out.input.username = "bob"
    /\ Len(users) = 2
    /\ users[1].Username = "alice"
    /\ Resolves(out.resp.token, now) = {2}

\* The token pair that the last issue to u handed out: its access token, and
\* whether that access token has expired while its refresh token has not.
PairAccess(u) == GenerateAccessToken(Hex(u), lastWrite[u].at)

AccessOnlyExpired(u) ==
    /\ lastWrite[u].by = "issue"
    /\ now >= lastWrite[u].at + AccessTokenLifetime
    /\ now < lastWrite[u].at + RefreshTokenLifetime

\* C23: refresh does not depend on the access token.  Once the access token of
\* a pair has expired, Protect rejects it with 401 InvalidToken on every
\* protected route, while RefreshToken with the refresh token of the same
\* pair, not yet expired, finds the identity; and a refresh that the store
\* completes returns a new pair whose access token Protect resolves to that
\* same identity.
C23_RefreshAfterAccessExpiry ==
    [][/\ \A u \in DOMAIN users :
             AccessOnlyExpired(u) =>
                 /\ \A r \in ProtectedRoutes, storeOk \in BOOLEAN :
                       Protect(1, r, Bearer(PairAccess(u)), storeOk) =>
                           /\ req'[1].pc = "idle"
                           /\ out'.trace.outcome = "InvalidToken"
                           /\ out'.resp = Failure(StatusUnauthorized,
                                                  "Invalid or expired token")
                 /\ RefreshToken(1, lastWrite[u].token, TRUE) =>
                       /\ req'[1].pc = "issue"
                       /\ req'[1].user.ID = u
       /\ req[1].op = "refresh" /\ SendTokenResponse(1, TRUE) =>
             /\ out'.resp.status = StatusOK
             /\ out'.resp.refreshToken \in Plaintexts \ {req[1].input.refreshToken}
             /\ out'.resp.user = req[1].user.ID
             /\ ProtectToken(Bearer(out'.resp.token), now').outcome = "lookup"
             /\ MatchId(users', ProtectToken(Bearer(out'.resp.token), now').userId)
                   = {req[1].user.ID}]_vars

\* One access token lifetime after a pair was issued, a refresh with the
\* refresh token of the pair has passed its lookup.
C23_Witness ==
    /\ req[1].op = "refresh"
    /\ req[1].pc = "issue"
    /\ AccessOnlyExpired(req[1].user.ID)
    /\ Current(req[1].user.ID, req[1].input.refreshToken)
    /\ ProtectToken(Bearer(PairAccess(req[1].user.ID)), now).outcome = "InvalidToken"

\* The records that the registration with body a created.
RegisteredWith(a) ==
    {i \in DOMAIN users : users[i].Username = a.username /\ users[i].Email = a.email}

\* The passwords clients send.
Passwords == {i.password : i \in RegisterInputs \cup LoginInputs}

\* C24: password round trip.  For an identity registered with password P, a
\* login with the identity's email and P passes the password check and, the
\* store answering, is answered 200 with a token pair for that identity; a
\* login with the identity's email and any other password is answered 401
\* InvalidCredentials, gets no tokens and changes nothing in the store.
C24_PasswordRoundTrip ==
    [][/\ \A a \in RegisterInputs, p \in Passwords :
             RegisteredWith(a) # {} /\ Login(1, a.email, p, TRUE) =>
                 IF p = a.password
                 THEN /\ req'[1].pc = "issue"
                      /\ req'[1].user.ID \in RegisteredWith(a)
                 ELSE /\ req'[1].pc = "idle"
                      /\ out'.resp = Failure(StatusUnauthorized, "Invalid credentials")
                      /\ out'.resp.token = NoJWT
                      /\ out'.resp.refreshToken = Null
                      /\ users' = users
                      /\ issued' = issued
       /\ req[1].op = "login" /\ SendTokenResponse(1, TRUE) =>
             /\ out'.resp.status = StatusOK
             /\ out'.resp.user = req[1].user.ID
             /\ out'.resp.token = GenerateAccessToken(Hex(req[1].user.ID), now)
             /\ out'.resp.refreshToken \in Plaintexts]_vars

\* The identity that registered the email a@x.io with the password secret2
\* has logged in with them and has been answered with a token pair.
C24_Witness ==
    /\ out.op = "login"
    /\ out.resp.status = StatusOK
    /\ out.input.email = "a@x.io"
    /\ out.input.password = "secret2"
    /\ users[out.resp.user].Username = "bob"
    /\ users[out.resp.user].Password = BcryptHash("secret2", "s1")

\* The operation the step of worker 1 belongs to, "none" for a step of the
\* clock or of the client.
StepOp ==
    IF req[1].pc # "idle" THEN req[1].op
    ELSE IF req'[1].pc # "idle" THEN req'[1].op
    ELSE out'.op

\* The identity the request of worker 1 targets: the authenticated identity of
\* a Logout, the identity found by Login or RefreshToken.
Target == IF req[1].op = "logout" THEN req[1].userId ELSE req[1].user.ID

\* Record doc with the refresh fields of record other.
WithRefreshOf(doc, other) ==
    [doc EXCEPT !.RefreshToken = other.RefreshToken,
                !.RefreshTokenExpire = other.RefreshTokenExpire]

\* C25: no step of any operation changes the id, the username, the email or
\* the password hash of an existing record, and no step removes a record.  A
\* step of login, refresh, logout or of Protect and the handlers behind it
\* inserts no record and writes at most the refresh digest and the refresh
\* expiry of the one identity the request targets; every other record stays
\* as it was.
C25_OnlyRefreshFieldsOfTarget ==
    [][/\ Len(users') >= Len(users)
       /\ \A i \in DOMAIN users : WithRefreshOf(users'[i], users[i]) = users[i]
       /\ StepOp \in {"login", "refresh"} \cup ProtectedRoutes =>
             /\ Len(users') = Len(users)
             /\ \A i \in DOMAIN users : users'[i] # users[i] => i = Target]_vars

\* A login of the second identity has stored a new digest on its record while
\* the record of the first identity holds the digest of its own token.
C25_Witness ==
    /\ out.op = "login"
    /\ out.resp.status = StatusOK
    /\ out.resp.user = 2
    /\ Len(users) = 2
    /\ lastWrite[1].by = "issue"
    /\ users[1].RefreshToken = HashString(lastWrite[1].token)
    /\ users[2].RefreshToken = HashString(out.resp.refreshToken)

\* The stored tasks with the id of the path that are not the caller's.
Foreign(id) ==
    IF ObjectIDFromHex(id) = Null THEN {}
    ELSE {i \in MatchId(tasks, ObjectIDFromHex(id)) : tasks[i].User # req[1].userId}

\* The step answers 403 with the given error and leaves the task collection
\* as it was.
Forbidden(error) ==
    /\ req'[1].pc = "idle"
    /\ out'.resp = Failure(StatusForbidden, error)
    /\ out'.resp.data = <<>>
    /\ tasks' = tasks

C27_RegisterCreated ==
    out.op = "register" /\ out.resp.error = "" =>
        /\ out.resp.status = StatusCreated
        /\ out.resp.token # NoJWT
        /\ out.resp.refreshToken \in Plaintexts
        /\ out.resp.user \in StoredIds

\* C28, as stated: Logout is not undone by a refresh in flight.  When the
\* store update of a RefreshToken request runs after a Logout of the same
\* identity has cleared the refresh fields, the lookup of the request having
\* run before that Logout, no refresh token is accepted for the identity
\* afterwards.
C28_LogoutNotUndone ==
    [][\A w \in Workers :
          /\ req[w].op = "refresh"
          /\ lastWrite[req[w].user.ID].by = "logout"
          /\ SendTokenResponse(w, TRUE)
          => \A t \in Plaintexts :
                req[w].user.ID \notin MatchRefreshToken(users', HashString(t), now')]_vars

\* C29, as stated: no two records of the user collection share a username or
\* an email, in every interleaving of concurrent Register requests.
C29_UniqueNames ==
    \A i, j \in DOMAIN users :
        i # j => users[i].Username # users[j].Username /\ users[i].Email # users[j].Email

\* C30, as stated: a Register request that is answered with an error leaves
\* the user collection as it was before the request: the step that answers
\* changes nothing, no record created by the request is stored, and the
\* username and the email of the request are free to register.
C30_FailedRegisterLeavesStore ==
    [][StepOp = "register" /\ req'[1].pc = "idle" /\ out'.resp.status # StatusOK =>
          /\ users' = users
          /\ req[1].pc = "issue" => MatchId(users', req[1].user.ID) = {}
          /\ req[1].pc # "idle" =>
                MatchUsernameOrEmail(users', req[1].input.username,
                                     req[1].input.email) = {}]_vars

\* The step answers a Login with 401 "Invalid credentials" or a RefreshToken
\* with 401 InvalidRefreshToken.
FailedAttempt ==
    /\ out' # out
    /\ \/ out'.op = "login" /\ out'.resp = Failure(StatusUnauthorized, "Invalid credentials")
       \/ out'.op = "refresh" /\ out'.resp = InvalidRefreshToken

\* C31: a login that fails with 401 "Invalid credentials" and a refresh that
\* fails with 401 InvalidRefreshToken are answered by the step that took the
\* request, and that step leaves every record of the user collection as it
\* was: no stored refresh digest is cleared or replaced and no expiry moves.
C31_FailedAttemptLeavesStore ==
    [][FailedAttempt => req[1].pc = "idle" /\ users' = users]_vars

\* A refresh with an expired token has been answered 401 and the record still
\* holds the digest of that token, with the expiry it was stored with.
C31_Witness ==
    /\ out.op = "refresh"
    /\ out.resp = InvalidRefreshToken
    /\ out.input.refreshToken \in Plaintexts
    /\ \E i \in DOMAIN users :
          /\ users[i].RefreshToken = HashString(out.input.refreshToken)
          /\ lastWrite[i].by = "issue"
          /\ users[i].RefreshTokenExpire = lastWrite[i].at + RefreshTokenLifetime
          /\ users[i].RefreshTokenExpire <= now

\* The terminal states of Protect: the four rejections of the state machine,
\* the rejection after a store call that failed, and Authenticated.
ProtectOutcomes ==
    {"MissingHeader", "MalformedHeader", "InvalidToken", "UnknownIdentity",
     "StoreUnavailable", "Authenticated"}

\* The response carries one body: the token pair with status 200 and no
\* error, or an error with an error status and no part of a token pair.
OneBody(resp) ==
    IF resp.error = ""
    THEN /\ resp.status = StatusOK
         /\ resp.token # NoJWT
         /\ resp.refreshToken \in Plaintexts
         /\ resp.user # Null
    ELSE /\ resp.status \in {StatusBadRequest, StatusUnauthorized, StatusInternalServerError}
         /\ resp.token = NoJWT
         /\ resp.refreshToken = Null
         /\ resp.user = Null

\* A request behind Protect has ended in one terminal state of Protect: the
\* handler answered after Authenticated and a rejection answered with 401, or
\* with 500 when the store call failed.
OneOutcome ==
    out.op \in ProtectedRoutes =>
        /\ out.trace.outcome \in ProtectOutcomes
        /\ out.trace.handler <=> out.trace.outcome = "Authenticated"
        /\ out.trace.outcome \notin {"Authenticated", "StoreUnavailable"} =>
              out.resp.status = StatusUnauthorized /\ out.resp.error # ""
        /\ out.trace.outcome = "StoreUnavailable" =>
              out.resp.status = StatusInternalServerError /\ out.resp.error # ""

\* A response is written by the step that ends its request, once: no response
\* is waiting while a request is served, and the step that writes one leaves
\* the worker without a request.
OneResponse ==
    /\ req[1].pc # "idle" => out = NoOut
    /\ out' # out /\ out' # NoOut => out = NoOut /\ req'[1].pc = "idle"

\* C32: every request reaches one terminal outcome and is answered once.  A
\* request behind Protect ends in one of the rejections or in Authenticated
\* followed by its handler; register, login and refresh answer with the token
\* pair or with an error, never with both; and, the handlers being scheduled
\* and the random source not exhausted, a request that is being served is
\* eventually answered.
C32_OneTerminalOutcome ==
    /\ [](OneOutcome /\ (out.op \in PublicRoutes => OneBody(out.resp)))
    /\ [][OneResponse]_vars
    /\ (req[1].pc # "idle" /\ issued < MaxTokens) ~> (req[1].pc = "idle" /\ out # NoOut)

\* The store call of sendTokenResponse has failed for a Register request that
\* had inserted its record, and the request was answered with 500 and the
\* error alone.
C32_Witness ==
    /\ out.op = "register"
    /\ out.resp = Failure(StatusInternalServerError,
                          "Failed to generate authentication tokens")
    /\ out.trace.storeOps = 3
    /\ MatchUsernameOrEmail(users, out.input.username, out.input.email) # {}
    /\ req[1].pc = "idle"

\* The stored task the UpdateTask request of worker 1 is about.
Updated == MatchId(tasks, ObjectIDFromHex(req[1].input.task.id))

\* C33, as stated: UpdateTask only updates the fields that were provided.  A
\* body of UpdateBodies carries the fields it gives a value other than the
\* zero value and leaves the others out; the UpdateOne of UpdateTask keeps the
\* title, the description, the completion flag, the due date and the priority
\* of the task where the body leaves them out, and changes nothing besides the
\* fields the body carries and updatedAt.
C33_OnlyProvidedFields ==
    [][UpdateTaskUpdate(1, TRUE) =>
          \A i \in Updated :
              LET body == req[1].input.task.body
              IN  /\ body.title = "" => tasks'[i].Title = tasks[i].Title
                  /\ body.description = "" => tasks'[i].Description = tasks[i].Description
                  /\ ~body.completed => tasks'[i].Completed = tasks[i].Completed
                  /\ body.dueDate = Null => tasks'[i].DueDate = tasks[i].DueDate
                  /\ body.priority = "" => tasks'[i].Priority = tasks[i].Priority
                  /\ tasks'[i].ID = tasks[i].ID
                  /\ tasks'[i].User = tasks[i].User
                  /\ tasks'[i].CreatedAt = tasks[i].CreatedAt]_vars

\* The identity the access token of the request of worker 1 was issued to.
Caller == ObjectIDFromHex(req[1].input.header.jwt.id)

\* C34: the owner of a task is the authenticated user of the CreateTask
\* request that inserted it, the identity of the access token the request
\* presented, and no step changes the owner of a stored task: UpdateTask
\* leaves it as it is, and DeleteTask removes the whole document.
C34_OwnerFixedAtCreation ==
    [][/\ \A i \in DOMAIN tasks' \ DOMAIN tasks :
             /\ req[1].input.task.handler = "none"
             /\ out'.input.task.handler = "CreateTask"
             /\ tasks'[i].User = Caller
             /\ tasks'[i].User \in StoredIds
       /\ \A i \in DOMAIN tasks :
             tasks'[i] # tasks[i] /\ tasks'[i] # NoTask => tasks'[i].User = tasks[i].User]_vars

\* The first user has updated a task of their own, which the response shows
\* completed and still theirs, while the second user holds a task as well.
C34_Witness ==
    /\ out.op = "tasks"
    /\ out.input.task.handler = "UpdateTask"
    /\ out.resp.status = StatusOK
    /\ ObjectIDFromHex(out.input.header.jwt.id) = 1
    /\ out.resp.data[1].Completed
    /\ out.resp.data[1].User = 1
    /\ \E i \in DOMAIN tasks : tasks[i].User = 1 /\ tasks[i].Completed
    /\ \E i \in DOMAIN tasks : tasks[i].User = 2

\* Task.priority enum
Priorities == {"low", "medium", "high"}

\* The step answers 400 with the error of the priority validation and leaves
\* the task collection as it was.
PriorityRejected ==
    /\ req'[1].pc = "idle"
    /\ out'.resp = Failure(StatusBadRequest, "Priority must be one of: low, medium, high")
    /\ tasks' = tasks

\* C35: every stored task has a priority of low, medium or high.  A CreateTask
\* without a priority stores medium, and one with a priority stores that
\* priority; a CreateTask or UpdateTask with a well-formed body whose priority
\* is not empty and not one of the three is answered 400 and changes nothing.
C35_PriorityInEnum ==
    /\ [](\A i \in DOMAIN tasks : tasks[i].Priority \in Priorities)
    /\ [][/\ \A i \in DOMAIN tasks' \ DOMAIN tasks :
                tasks'[i].Priority = IF out'.input.task.body.priority = "" THEN "medium"
                                     ELSE out'.input.task.body.priority
          /\ \A body \in CreateBodies :
                /\ CreateTask(1, body, TRUE)
                /\ ~body.malformed /\ body.title # ""
                /\ body.priority \notin Priorities \cup {""}
                => PriorityRejected
          /\ \A id \in TaskIds, body \in UpdateBodies :
                /\ UpdateTask(1, id, body, TRUE)
                /\ ObjectIDFromHex(id) # Null
                /\ ~body.malformed
                /\ body.priority \notin Priorities \cup {""}
                => PriorityRejected]_vars

\* An UpdateTask with the priority "urgent" has been answered 400, and the
\* task it named holds the priority medium it was created with.
C35_Witness ==
    /\ out.op = "tasks"
    /\ out.input.task.handler = "UpdateTask"
    /\ out.input.task.body.priority = "urgent"
    /\ out.resp = Failure(StatusBadRequest, "Priority must be one of: low, medium, high")
    /\ \E i \in MatchId(tasks, ObjectIDFromHex(out.input.task.id)) :
          tasks[i].Priority = "medium" /\ tasks[i].Title = "t1"

\* The text is parsable: a decimal number that an int can hold.
Parsable(text) == IsNumber(text) /\ Number(text) >= MinInt /\ Number(text) <= MaxInt

\* The page and the limit of the claim for the texts of the two parameters, a
\* parameter left out standing for its default.
NormalPage(text) ==
    IF text # <<>> /\ Parsable(text) /\ Number(text) >= 1 THEN Number(text) ELSE 1

NormalLimit(text) ==
    IF text # <<>> /\ Parsable(text) /\ Number(text) >= 1 /\ Number(text) <= 100
    THEN Number(text)
    ELSE 10

\* The response of the step is the page of the query of worker 1 under the
\* pagination of the claim.
Paginated ==
    LET query == req[1].input.task.query
        page == NormalPage(query.page)
        limit == NormalLimit(query.limit)
        found == MatchQuery(tasks, req[1].userId, query.completed, query.priority)
        total == Cardinality(found)
        resp == out'.resp
    IN  /\ resp.status = StatusOK
        /\ resp.pagination.page = page
        /\ resp.pagination.limit = limit
        /\ resp.data \in Find(tasks, found, SortField(query), SortOrder(query),
                              (page - 1) * limit, limit)
        /\ resp.count = Len(resp.data)
        /\ resp.count <= limit
        /\ resp.pagination.total = total
        /\ resp.pagination.totalPages * limit >= total
        /\ (resp.pagination.totalPages - 1) * limit < total

\* C36, as stated: GetTasks normalises pagination for every input.  When the
\* store answers, the response of GetTasks has status 200; its page is the
\* page of the request, or 1 if that is below 1 or not parsable; its limit is
\* the limit of the request, or 10 if that is below 1, above 100 or not
\* parsable; its tasks are those the query matches from position
\* (page - 1) * limit on in the sort order, at most limit of them; and its
\* totalPages is the ceiling of total / limit.
C36_PaginationNormalised ==
    [][GetTasksFind(1, "ok") => Paginated]_vars
====
